---- MODULE Spec2Model ----
(***************************************************************************)
(* droidgear: profile store, active pointer and profile-to-live-config     *)
(* projection for the Codex, OpenCode and OpenClaw tool families           *)
(* (src-tauri/src/commands/{codex,opencode,openclaw}.rs).                  *)
(*                                                                         *)
(* The state is the file system (one family per behaviour: the families    *)
(* use disjoint directories) and, per caller, the position inside the      *)
(* command it is running.  Every file-system call of a command is one      *)
(* step, so that overlapping commands interleave as the OS lets them.      *)
(***************************************************************************)
EXTENDS Integers, Sequences, FiniteSets, TLC

VARIABLES
  family,   \* the tool family of this behaviour
  fs,       \* path -> file content, or NoFile
  proc,     \* caller -> its local state (pc, arguments, locals)
  callers,  \* the callers that may issue commands
  faults,   \* the I/O failures (read, write, rename, mkdir) still to come
  calls,    \* the commands the callers may still issue
  clock,    \* the latest time Utc::now() returned
  minted,   \* the ids Uuid::new_v4() returned
  merge,    \* deep_merge_json on its own: base, overlay, base after one call, after two
  built     \* a call of build_openclaw_config on its own: profile, value returned

vars == <<family, fs, proc, callers, faults, calls, clock, minted, merge, built>>

\* what no command changes
world == <<family, callers, merge, built>>

\* what the commands that read neither the clock nor a fresh id leave alone
env == <<world, clock, minted>>

(***************************************************************************)
(* Bounds of the model.                                                    *)
(***************************************************************************)
\* the I/O failures injected in one behaviour: of one caller, of two callers
MaxFaults == 2
MaxConcFaults == 1

\* the commands issued in one behaviour
MaxCalls == 2

\* the latest time of a behaviour; the first is Epoch + 1, and Epoch is the
\* time the stored profiles were created at
MaxTime == 3

\* a step of a running command: one of its I/O calls fails / none does
Fault == faults > 0 /\ faults' = faults - 1 /\ calls' = calls
NoFault == faults' = faults /\ calls' = calls

\* caller p issues a command; `failed`: the first I/O call of the command fails
Issue(p, failed) ==
  /\ p \in callers
  /\ calls > 0
  /\ calls' = calls - 1
  /\ IF failed THEN faults > 0 /\ faults' = faults - 1 ELSE faults' = faults

Families == {"codex", "opencode", "openclaw"}

\* timestamps: the number t is the text now_rfc3339() returns at time t, and
\* Blank the empty text
Blank == 0
Epoch == 1
Procs == {"A", "B"}

(***************************************************************************)
(* Text.  A string is a sequence of one-character strings, so that trim    *)
(* and the id check are computed character by character.                   *)
(***************************************************************************)
IsWhitespace(c) == c \in {" ", "\n", "\t"}

\* char::is_ascii_alphanumeric, on the characters the model uses
IsAsciiAlphanumeric(c) == c \in {"a", "b", "u", "x", "1", "2"}

RECURSIVE TrimStart(_)
TrimStart(s) ==
  IF s # <<>> /\ IsWhitespace(Head(s)) THEN TrimStart(Tail(s)) ELSE s

RECURSIVE TrimEnd(_)
TrimEnd(s) ==
  IF s # <<>> /\ IsWhitespace(s[Len(s)])
  THEN TrimEnd(SubSeq(s, 1, Len(s) - 1))
  ELSE s

\* str::trim
Trim(s) == TrimEnd(TrimStart(s))

(***************************************************************************)
(* JSON values (serde_json::Value) as tagged tuples.                       *)
(***************************************************************************)
JStr(s) == <<"str", s>>
JBool(b) == <<"bool", b>>
JNum(n) == <<"num", n>>
JArr(a) == <<"arr", a>>
JObj(m) == <<"obj", m>>
EmptyMap == [k \in {} |-> JStr("")]
IsObj(v) == v[1] = "obj"
Keys(v) == DOMAIN v[2]

(***************************************************************************)
(* File contents.  A JSON text carries the document it encodes and how it  *)
(* is written: "pretty" (serde_json::to_string_pretty), "compact" (as an   *)
(* external tool may write it) or "jsonc" (with // or block comments).     *)
(* A plain text carries its characters.  Partial(b) is a proper prefix of  *)
(* a JSON or profile text: it parses as nothing.                           *)
(***************************************************************************)
NoFile == <<"absent">>
JsonText(style, v) == <<"json", style, v>>
Text(s) == <<"txt", s>>
ProfileText(p) == <<"prof", p>>
Partial(b) == <<"part", b>>
Empty == Text(<<>>)

\* what a write that fails midway leaves in the file it was writing
TruncationOf(b) ==
  IF b[1] = "txt"
  THEN Text(SubSeq(b[2], 1, Len(b[2]) - 1))
  ELSE IF b[1] = "part" THEN b ELSE Partial(b)

\* serde_json::to_string_pretty
ToStringPretty(v) == JsonText("pretty", v)

\* serde_json::from_str::<Value>: <<TRUE, v>> or <<FALSE>>
FromStr(b) ==
  IF b[1] = "json" /\ b[2] # "jsonc" THEN <<TRUE, b[3]>> ELSE <<FALSE>>

\* json_comments::StripComments: the text with its // and block comments
\* blanked
StripComments(b) ==
  IF b[1] = "json" /\ b[2] = "jsonc" THEN JsonText("compact", b[3]) ELSE b

\* json_comments::StripComments followed by serde_json::from_str
FromStrStripped(b) == FromStr(StripComments(b))

(***************************************************************************)
(* Option<T>: None is the empty sequence, Some(x) the one-element one.     *)
(***************************************************************************)
None == <<>>
Some(x) == <<x>>
IsSome(o) == o # <<>>
Unwrap(o) == o[1]

(***************************************************************************)
(* Paths: <<directory, file stem, extension>>.                             *)
(***************************************************************************)
\* Path::with_extension
WithExtension(path, ext) == <<path[1], path[2], ext>>

\* validate_profile_id (codex.rs, openclaw.rs; opencode.rs has none)
ValidateProfileId(id) ==
  /\ \A i \in 1..Len(id) : IsAsciiAlphanumeric(id[i]) \/ id[i] = "-" \/ id[i] = "_"
  /\ id # <<>>

\* profiles_dir.join(format!("{id}.json"))
ProfilePath(id) == <<"profiles", id, "json">>

\* ~/.droidgear/<family>/active-profile.txt
ActiveProfilePath == <<"droidgear", "active-profile", "txt">>

CodexAuthPath == <<"codex", "auth", "json">>
CodexConfigPath == <<"codex", "config", "toml">>
OpenClawConfigPath == <<"openclaw", "openclaw", "json">>
OpenCodeConfigDir == "opencode-config"
OpenCodeAuthDir == "opencode-share"

\* a resolve_config_file that answers the .json path whatever exists
ResolveConfigFileJsonOnly(files, dir, baseName) == <<dir, baseName, "json">>

\* resolve_config_file: the .jsonc file when it exists, else the .json path
ResolveConfigFile(files, dir, baseName) ==
  IF files[<<dir, baseName, "jsonc">>] # NoFile
  THEN <<dir, baseName, "jsonc">>
  ELSE <<dir, baseName, "json">>

GetOpenCodeConfigPath(files) == ResolveConfigFile(files, OpenCodeConfigDir, "opencode")
GetOpenCodeAuthPath(files) == ResolveConfigFile(files, OpenCodeAuthDir, "auth")

(***************************************************************************)
(* Structured merge and the projections of a profile onto live documents.  *)
(***************************************************************************)
\* a JSON object of the fields whose value is Some; fields: {<<key, option>>}
ObjectOf(fields) ==
  JObj([k \in {f[1] : f \in {g \in fields : IsSome(g[2])}} |->
          Unwrap((CHOOSE f \in fields : f[1] = k)[2])])

\* Option<String> -> Option<Value>
OptStr(o) == IF IsSome(o) THEN Some(JStr(Unwrap(o))) ELSE None

\* a merge that takes the overlay's value for every key of the overlay
DeepMergeJsonShallow(base, overlay) ==
  IF IsObj(base) /\ IsObj(overlay)
  THEN JObj([k \in Keys(base) \cup Keys(overlay) |->
              IF k \in Keys(overlay) THEN overlay[2][k] ELSE base[2][k]])
  ELSE overlay

\* a merge that appends an overlay sequence to a base sequence
RECURSIVE DeepMergeJsonConcat(_, _)
DeepMergeJsonConcat(base, overlay) ==
  IF IsObj(base) /\ IsObj(overlay)
  THEN JObj([k \in Keys(base) \cup Keys(overlay) |->
              IF k \notin Keys(overlay) THEN base[2][k]
              ELSE IF k \in Keys(base)
                   THEN DeepMergeJsonConcat(base[2][k], overlay[2][k])
                   ELSE overlay[2][k]])
  ELSE IF base[1] = "arr" /\ overlay[1] = "arr" THEN JArr(base[2] \o overlay[2])
  ELSE overlay

\* deep_merge_json: maps merge key by key, anything else is overwritten
RECURSIVE DeepMergeJson(_, _)
DeepMergeJson(base, overlay) ==
  IF IsObj(base) /\ IsObj(overlay)
  THEN JObj([k \in Keys(base) \cup Keys(overlay) |->
              IF k \notin Keys(overlay) THEN base[2][k]
              ELSE IF k \in Keys(base)
                   THEN DeepMergeJson(base[2][k], overlay[2][k])
                   ELSE overlay[2][k]])
  ELSE overlay

\* the model array of one provider in build_openclaw_config
OpenClawModelValue(m) ==
  ObjectOf({ <<"id", Some(JStr(m.id))>>,
             <<"name", OptStr(m.name)>>,
             <<"reasoning", Some(JBool(m.reasoning))>>,
             <<"input", IF m.input # <<>>
                        THEN Some(JArr([i \in 1..Len(m.input) |-> JStr(m.input[i])]))
                        ELSE None>>,
             <<"contextWindow", IF IsSome(m.contextWindow)
                                THEN Some(JNum(Unwrap(m.contextWindow))) ELSE None>>,
             <<"maxTokens", IF IsSome(m.maxTokens)
                            THEN Some(JNum(Unwrap(m.maxTokens))) ELSE None>> })

OpenClawProviderValue(pr) ==
  ObjectOf({ <<"baseUrl", OptStr(pr.baseUrl)>>,
             <<"apiKey", OptStr(pr.apiKey)>>,
             <<"api", OptStr(pr.api)>>,
             <<"models", IF pr.models # <<>>
                         THEN Some(JArr([i \in 1..Len(pr.models) |->
                                           OpenClawModelValue(pr.models[i])]))
                         ELSE None>> })

\* format!("{provider_id}/{}", model.id) for every model of every provider
AllModelRefs(profile) ==
  UNION { { pid \o "/" \o profile.providers[pid].models[i].id :
              i \in 1..Len(profile.providers[pid].models) } :
          pid \in DOMAIN profile.providers }

\* build_openclaw_config
BuildOpenClawConfig(profile) ==
  LET refs == AllModelRefs(profile)
      defaults ==
        ObjectOf({ <<"model", IF IsSome(profile.defaultModel)
                              THEN Some(JObj([k \in {"primary"} |->
                                               JStr(Unwrap(profile.defaultModel))]))
                              ELSE None>>,
                   <<"models", IF refs # {}
                               THEN Some(JObj([r \in refs |-> JObj(EmptyMap)]))
                               ELSE None>> })
      agents == JObj([k \in {"defaults"} |-> defaults])
      providers == JObj([pid \in DOMAIN profile.providers |->
                           OpenClawProviderValue(profile.providers[pid])])
      models == JObj([k \in {"mode", "providers"} |->
                        IF k = "mode" THEN JStr("merge") ELSE providers])
  IN ObjectOf({ <<"agents", IF IsSome(profile.defaultModel) \/ refs # {}
                            THEN Some(agents) ELSE None>>,
                <<"models", IF DOMAIN profile.providers # {}
                            THEN Some(models) ELSE None>> })

\* serde_json::to_value(&profile.providers) for OpenCode
OpenCodeOptionsValue(o) ==
  ObjectOf({ <<"baseUrl", OptStr(o.baseUrl)>>,
             <<"apiKey", OptStr(o.apiKey)>>,
             <<"timeout", IF IsSome(o.timeout) THEN Some(JNum(Unwrap(o.timeout))) ELSE None>>,
             <<"headers", IF IsSome(o.headers) THEN Some(JObj(Unwrap(o.headers))) ELSE None>> })

OpenCodeProviderValue(pr) ==
  ObjectOf({ <<"npm", OptStr(pr.npm)>>,
             <<"name", OptStr(pr.name)>>,
             <<"options", IF IsSome(pr.options)
                          THEN Some(OpenCodeOptionsValue(Unwrap(pr.options)))
                          ELSE None>> })

OpenCodeProvidersValue(profile) ==
  JObj([pid \in DOMAIN profile.providers |->
          OpenCodeProviderValue(profile.providers[pid])])

\* m with key k set to v (serde_json::Map::insert)
Insert(m, k, v) == [j \in DOMAIN m \cup {k} |-> IF j = k THEN v ELSE m[j]]

\* m with every entry of n inserted
InsertAll(m, n) == [j \in DOMAIN m \cup DOMAIN n |-> IF j \in DOMAIN n THEN n[j] ELSE m[j]]

\* apply_opencode_profile, step 1: the providers merged into the config document
MergeOpenCodeProviders(config, profile) ==
  IF DOMAIN profile.providers = {} \/ ~IsObj(config) THEN config
  ELSE LET obj == IF "provider" \in Keys(config)
                  THEN config[2]
                  ELSE Insert(config[2], "provider", JObj(EmptyMap))
           existing == obj["provider"]
       IN IF IsObj(existing)
          THEN JObj(Insert(obj, "provider",
                           JObj(InsertAll(existing[2], OpenCodeProvidersValue(profile)[2]))))
          ELSE JObj(obj)

\* apply_opencode_profile, step 2: the auth entries merged into the auth document
MergeOpenCodeAuth(auth, profile) ==
  IF DOMAIN profile.auth = {} \/ ~IsObj(auth) THEN auth
  ELSE JObj(InsertAll(auth[2], profile.auth))

\* read_json_file's result for a file content (NoFile included): never an error
ReadJsonFileValue(b) ==
  IF b = NoFile THEN JObj(EmptyMap)
  ELSE IF FromStrStripped(b)[1] THEN FromStrStripped(b)[2] ELSE JObj(EmptyMap)

\* the sample TOML documents: key/value lines that are well formed, and one
\* that breaks off after the equals sign
WellFormedToml == { <<"a", "=", "1">>, <<"b", "=", "2">> }
MalformedToml == { <<"a", "=">> }

\* toml::from_str::<toml::Table> succeeds (the toml crate, on the sample
\* texts; a document of whitespace alone is an empty table)
TomlFromStrOk(text) ==
  \/ \A i \in 1..Len(text) : IsWhitespace(text[i])
  \/ text \in WellFormedToml

\* validate_toml that accepts every text
ValidateTomlSkipped(text) == TRUE

\* validate_toml
ValidateToml(text) == Trim(text) = <<>> \/ TomlFromStrOk(text)

(***************************************************************************)
(* Profiles.  One record type for the three families; a family leaves the  *)
(* fields of the others empty.  Timestamps are numbers (0 is the empty     *)
(* string).                                                                *)
(***************************************************************************)
IdA == <<"a">>
IdB == <<"b">>
IdBad == <<".", ".", "/", "x">>
StoreIds == {IdA, IdB}
ArgIds == StoreIds \cup {IdBad}

NoProviders == [k \in {} |-> 0]

CodexK1 ==
  [auth |-> [k \in {"OPENAI_API_KEY"} |-> JStr("k1")], configToml |-> <<"a", "=", "1">>,
   defaultModel |-> None, providers |-> NoProviders]

CodexBlank ==
  [auth |-> EmptyMap, configToml |-> <<" ">>, defaultModel |-> None, providers |-> NoProviders]

CodexEmpty ==
  [auth |-> EmptyMap, configToml |-> <<>>, defaultModel |-> None, providers |-> NoProviders]

CodexBadToml ==
  [auth |-> [k \in {"OPENAI_API_KEY"} |-> JStr("k2")], configToml |-> <<"a", "=">>,
   defaultModel |-> None, providers |-> NoProviders]

CodexPayloads == {CodexK1, CodexBlank, CodexEmpty, CodexBadToml}

AcmeOptions ==
  [baseUrl |-> Some("https://x"), apiKey |-> Some("k1"), timeout |-> None, headers |-> None]

OpenCodeAcme ==
  [auth |-> [k \in {"acme"} |->
               JObj([f \in {"type", "key"} |-> IF f = "type" THEN JStr("api") ELSE JStr("k1")])],
   configToml |-> <<>>, defaultModel |-> None,
   providers |-> [k \in {"acme"} |->
                    [npm |-> None, name |-> None, options |-> Some(AcmeOptions)]]]

NoPayload ==
  [auth |-> EmptyMap, configToml |-> <<>>, defaultModel |-> None, providers |-> NoProviders]

OpenCodePayloads == {OpenCodeAcme, NoPayload}

ModelM1 ==
  [id |-> "m1", name |-> None, reasoning |-> FALSE, input |-> <<>>,
   contextWindow |-> None, maxTokens |-> None]

OpenClawAcme ==
  [auth |-> EmptyMap, configToml |-> <<>>, defaultModel |-> Some("acme/m1"),
   providers |-> [k \in {"acme"} |->
                    [baseUrl |-> Some("https://x"), apiKey |-> Some("k1"), api |-> None,
                     models |-> <<ModelM1>>]]]

OpenClawPayloads == {OpenClawAcme, NoPayload}

\* a payload whose providers are acme, with a base URL and an API key, alone
AcmeAlone(fam) ==
  IF fam = "opencode"
  THEN [OpenCodeAcme EXCEPT !.auth = EmptyMap]
  ELSE [OpenClawAcme EXCEPT !.defaultModel = None, !.providers["acme"].models = <<>>]

\* the profile payload the two-caller specification stores
MainPayload(fam) ==
  CASE fam = "codex" -> CodexK1
    [] fam = "opencode" -> OpenCodeAcme
    [] fam = "openclaw" -> OpenClawAcme

\* the payload of the second profile the two-caller specification stores
SecondPayload(fam) ==
  CASE fam = "codex" -> CodexBlank
    [] fam = "opencode" -> NoPayload
    [] fam = "openclaw" -> NoPayload

Payloads(fam) ==
  CASE fam = "codex" -> CodexPayloads
    [] fam = "opencode" -> OpenCodePayloads
    [] fam = "openclaw" -> OpenClawPayloads

MakeProfile(id, payload) ==
  [id |-> id, name |-> "alpha", createdAt |-> Epoch, updatedAt |-> Epoch,
   auth |-> payload.auth, configToml |-> payload.configToml,
   defaultModel |-> payload.defaultModel, providers |-> payload.providers]

\* serde_json::from_str::<Profile> of a profile file: Some(profile) or None
ParseProfile(b) == IF b[1] = "prof" THEN Some(b[2]) ELSE None

\* a profile document the store did not write whole
Corrupt == Text(<<"x">>)

(***************************************************************************)
(* The file system.                                                        *)
(***************************************************************************)
LivePaths ==
  { CodexAuthPath, CodexConfigPath, OpenClawConfigPath,
    <<OpenCodeConfigDir, "opencode", "json">>, <<OpenCodeConfigDir, "opencode", "jsonc">>,
    <<OpenCodeAuthDir, "auth", "json">>, <<OpenCodeAuthDir, "auth", "jsonc">> }

\* the ids Uuid::new_v4().to_string() returns
Uuids == { <<"u", "1">>, <<"u", "2">> }

\* the ids a profile document may be stored under
PathIds == ArgIds \cup Uuids \cup {<<>>}

ProfilePaths == { ProfilePath(id) : id \in PathIds }

TargetPaths == LivePaths \cup ProfilePaths \cup {ActiveProfilePath}

AllPaths == TargetPaths \cup { WithExtension(t, "tmp") : t \in TargetPaths }

Theme == [k \in {"theme"} |-> JStr("dark")]

\* the live files as the external tool may have left them
InitialLive(fam) ==
  CASE fam = "codex" ->
         { [p \in LivePaths |->
              IF p = CodexAuthPath THEN a ELSE IF p = CodexConfigPath THEN c ELSE NoFile] :
           a \in {NoFile, JsonText("compact", JObj(Theme))},
           c \in {NoFile, Text(<<"b", "=", "2">>)} }
    [] fam = "openclaw" ->
         { [p \in LivePaths |-> IF p = OpenClawConfigPath THEN c ELSE NoFile] :
           c \in { NoFile, JsonText("compact", JObj(Theme)), JsonText("jsonc", JObj(Theme)),
                   Corrupt, JsonText("compact", JArr(<<JStr("x")>>)) } }
    [] fam = "opencode" ->
         { [p \in LivePaths |->
              CASE p = <<OpenCodeConfigDir, "opencode", "json">> -> c
                [] p = <<OpenCodeConfigDir, "opencode", "jsonc">> -> cc
                [] p = <<OpenCodeAuthDir, "auth", "json">> -> a
                [] OTHER -> NoFile] :
           c \in { NoFile, JsonText("compact", JObj(Theme)), Corrupt,
                   JsonText("compact", JArr(<<JStr("x")>>)) },
           cc \in { NoFile, JsonText("jsonc", JObj(Theme)) },
           a \in { NoFile, JsonText("compact", JObj(Theme)) } }

(***************************************************************************)
(* A caller's local state.  Seven fields are history: pre, the file system *)
(* when the command began; renamed, the paths the command renamed onto;    *)
(* committed, the <<path, bytes>> of its atomic_write calls that returned  *)
(* Ok; last, the paths no other caller renamed onto since; failed, the     *)
(* call site of its first atomic_write (or read of a stored profile in     *)
(* save) that returned an error, and failedIn, the step of atomic_write    *)
(* the error arose in; awBefore, the target's content when the running     *)
(* atomic_write began.                                                     *)
(***************************************************************************)
NoFd == <<"nofd">>
Orphan == <<"orphan">>
NoPath == <<"nopath">>

IdleLocal ==
  [pc |-> "idle", op |-> "none", id |-> <<>>, arg |-> None, ret |-> None, prof |-> None,
   oldAuth |-> None, oldCfg |-> None,
   awPath |-> NoPath, awBytes |-> NoFile, awRet |-> "none", fd |-> NoFd,
   result |-> "none", err |-> "none",
   pre |-> <<>>, renamed |-> {}, committed |-> {}, last |-> {},
   failed |-> "none", failedIn |-> "none",
   awBefore |-> NoFile]

\* the command returns result; err names the phase an error arose in
Finish(l, result, err) ==
  [l EXCEPT !.pc = "done", !.result = result, !.err = err,
            !.awPath = NoPath, !.awBytes = NoFile, !.awRet = "none", !.fd = NoFd,
            !.awBefore = NoFile]

\* the call atomic_write(path, bytes) begins; ret names the call site
StartAw(l, path, bytes, ret) ==
  [l EXCEPT !.pc = "aw_open", !.awPath = path, !.awBytes = bytes, !.awRet = ret]

(***************************************************************************)
(* Codex: write_codex_live_atomic and apply_codex_profile after each       *)
(* atomic_write returns (ok: it returned Ok).                              *)
(***************************************************************************)
\* an apply that returns without recording the id
SetActiveProfileIdSkipped(l) == Finish(l, "ok", "none")

\* an apply that records the id in the profile's own document
SetActiveProfileIdInStore(l) == StartAw(l, ProfilePath(l.id), Text(l.id), "ptr")

\* set_active_profile_id(&id)
SetActiveProfileId(l) == StartAw(l, ActiveProfilePath, Text(l.id), "ptr")

\* after write_json_object_file(&auth_path, auth)
AfterCodexAuth(l, ok) ==
  IF ok
  THEN StartAw(l, CodexConfigPath, Text(Unwrap(l.prof).configToml), "cx_cfg")
  ELSE Finish(l, "err", "write")

\* the rollback of config.toml
CodexRollbackConfig(l) ==
  IF IsSome(l.oldCfg)
  THEN StartAw(l, CodexConfigPath, Unwrap(l.oldCfg), "cx_rb_cfg")
  ELSE [l EXCEPT !.pc = "cx_rm_cfg"]

\* the rollback of auth.json
CodexRollbackAuth(l) ==
  IF IsSome(l.oldAuth)
  THEN StartAw(l, CodexAuthPath, Unwrap(l.oldAuth), "cx_rb_auth")
  ELSE [l EXCEPT !.pc = "cx_rm_auth"]

\* after atomic_write(&config_path, config_toml)
AfterCodexConfig(l, ok) ==
  IF ok THEN SetActiveProfileId(l) ELSE CodexRollbackAuth(l)

\* an apply that drops the result of set_active_profile_id
AfterPointerIgnored(l, ok) == Finish(l, "ok", "none")

\* after set_active_profile_id
AfterPointer(l, ok) ==
  IF ok THEN Finish(l, "ok", "none") ELSE Finish(l, "err", "pointer")

(***************************************************************************)
(* OpenCode and OpenClaw after each atomic_write returns.                  *)
(***************************************************************************)
\* apply_opencode_profile that sets the pointer once the config file is written
AfterOpenCodeConfigThenPointer(l, ok) ==
  IF ok THEN SetActiveProfileId(l) ELSE Finish(l, "err", "write")

\* after atomic_write(&config_path, &config_content)
AfterOpenCodeConfig(l, ok) ==
  IF ok THEN [l EXCEPT !.pc = "oc_read_auth"] ELSE Finish(l, "err", "write")

\* after atomic_write(&auth_path, &auth_content)
AfterOpenCodeAuth(l, ok) ==
  IF ok THEN SetActiveProfileId(l) ELSE Finish(l, "err", "write")

\* after write_openclaw_config(&profile)
AfterOpenClawConfig(l, ok) ==
  IF ok THEN SetActiveProfileId(l) ELSE Finish(l, "err", "write")

\* save_*_profile after write_profile_file / atomic_write
AfterSave(l, ok) ==
  IF ok THEN Finish(l, "ok", "none") ELSE Finish(l, "err", "write")

\* duplicate_*_profile after write_profile_file / save_opencode_profile: Ok(profile)
AfterDuplicate(l, ok) ==
  IF ok THEN Finish(l, "ok", "none") ELSE Finish([l EXCEPT !.ret = None], "err", "write")

\* a create_default_profile that returns once the profile is saved
AfterDefaultSaveNoPointer(l, ok) ==
  IF ok THEN Finish(l, "ok", "none") ELSE Finish([l EXCEPT !.ret = None], "err", "write")

\* create_default_profile after save_opencode_profile(profile.clone()): the
\* new id is written to the pointer file
AfterDefaultSave(l, ok) ==
  IF ok THEN SetActiveProfileId(l) ELSE Finish([l EXCEPT !.ret = None], "err", "write")

\* save_custom_models after write_config_file(&config)
AfterWriteConfigFile(l, ok) ==
  IF ok THEN Finish(l, "ok", "none") ELSE Finish(l, "err", "write")

\* the caller's code after the atomic_write it started returns
Continue(l0, ok) ==
  LET l == IF ok \/ l0.failed # "none" THEN l0
           ELSE [l0 EXCEPT !.failed = l0.awRet, !.failedIn = l0.pc]
  IN CASE l.awRet = "cx_auth" -> AfterCodexAuth(l, ok)
       [] l.awRet = "cx_cfg" -> AfterCodexConfig(l, ok)
       [] l.awRet = "cx_rb_auth" -> CodexRollbackConfig(l)
       [] l.awRet = "cx_rb_cfg" -> Finish(l, "err", "write")
       [] l.awRet = "oc_cfg" -> AfterOpenCodeConfig(l, ok)
       [] l.awRet = "oc_auth" -> AfterOpenCodeAuth(l, ok)
       [] l.awRet = "cl_cfg" -> AfterOpenClawConfig(l, ok)
       [] l.awRet = "ptr" -> AfterPointer(l, ok)
       [] l.awRet = "save" -> AfterSave(l, ok)
       [] l.awRet = "dup" -> AfterDuplicate(l, ok)
       [] l.awRet = "cd_save" -> AfterDefaultSave(l, ok)
       [] l.awRet = "models" -> AfterWriteConfigFile(l, ok)

(***************************************************************************)
(* atomic_write(path, bytes), one file-system call per step.  An open file *)
(* is held by its descriptor (fd: the path its inode now lives at, or      *)
(* Orphan once unlinked), so a rename or removal by another caller moves   *)
(* or orphans what this caller writes.                                     *)
(***************************************************************************)
\* an atomic_write that stages its bytes in the target itself
TempPathInPlace(l) == l.awPath

\* let temp_path = path.with_extension("tmp")
TempPath(l) == WithExtension(l.awPath, "tmp")

\* garbled bytes: two writers' data in one file
Mixed == <<"mixed">>

\* the content of a file holding `existing` after `data` is written at offset 0
WriteOutcomes(existing, data) ==
  IF data = Empty THEN {existing}
  ELSE IF existing = Empty \/ existing = data THEN {data}
  ELSE {data, Mixed}

FdAfterRename(fd, src, dst) ==
  IF fd = src THEN dst ELSE IF fd = dst THEN Orphan ELSE fd

FdAfterRemove(fd, path) == IF fd = path THEN Orphan ELSE fd

\* std::fs::write, first half: File::create(temp_path) creates or truncates;
\* it fails when the parent directory cannot be created or the file opened
AwOpen(p) ==
  LET l == proc[p] IN
  /\ l.pc = "aw_open"
  /\ \/ /\ fs' = [fs EXCEPT ![TempPath(l)] = Empty]
        /\ proc' = [proc EXCEPT ![p] = [l EXCEPT !.pc = "aw_write", !.fd = TempPath(l),
                                                  !.awBefore = fs[l.awPath]]]
        /\ NoFault
     \/ /\ proc' = [proc EXCEPT ![p] = Continue(l, FALSE)]
        /\ UNCHANGED fs
        /\ Fault
  /\ UNCHANGED env

\* the file system after `data` is written through descriptor fd
WriteThrough(files, fd, data) ==
  IF fd = Orphan THEN {files}
  ELSE { [files EXCEPT ![fd] = c] : c \in WriteOutcomes(files[fd], data) }

\* std::fs::write, second half: write_all through the descriptor, then close;
\* a failed write leaves a truncated temp file behind
AwWrite(p) ==
  LET l == proc[p] IN
  /\ l.pc = "aw_write"
  /\ \/ /\ fs' \in WriteThrough(fs, l.fd, l.awBytes)
        /\ proc' = [proc EXCEPT ![p] = [l EXCEPT !.pc = "aw_rename", !.fd = NoFd]]
        /\ NoFault
     \/ /\ fs' \in WriteThrough(fs, l.fd, TruncationOf(l.awBytes))
        /\ proc' = [proc EXCEPT ![p] = Continue([l EXCEPT !.fd = NoFd], FALSE)]
        /\ Fault
  /\ UNCHANGED env

\* an atomic_write that takes a rename whose temp file is gone for done
AwRenameUnchecked(p) ==
  LET l == proc[p] IN
  /\ l.pc = "aw_rename"
  /\ \/ /\ fs[TempPath(l)] # NoFile
        /\ fs' = [fs EXCEPT ![l.awPath] = fs[TempPath(l)], ![TempPath(l)] = NoFile]
        /\ proc' = [q \in Procs |->
                      IF q = p
                      THEN Continue([l EXCEPT !.renamed = @ \cup {l.awPath},
                                              !.committed = @ \cup {<<l.awPath, l.awBytes>>},
                                              !.last = @ \cup {l.awPath}],
                                    TRUE)
                      ELSE [proc[q] EXCEPT !.fd = FdAfterRename(@, TempPath(l), l.awPath),
                                           !.last = @ \ {l.awPath}]]
        /\ NoFault
     \/ /\ fs[TempPath(l)] = NoFile
        /\ proc' = [proc EXCEPT ![p] = Continue(l, TRUE)]
        /\ UNCHANGED fs
        /\ NoFault
     \/ /\ fs[TempPath(l)] # NoFile
        /\ proc' = [proc EXCEPT ![p] = [l EXCEPT !.pc = "aw_cleanup"]]
        /\ UNCHANGED fs
        /\ Fault
  /\ UNCHANGED env

\* std::fs::rename(&temp_path, path); it fails when the temp file is gone
AwRename(p) ==
  LET l == proc[p] IN
  /\ l.pc = "aw_rename"
  /\ \/ /\ fs[TempPath(l)] # NoFile
        /\ fs' = [fs EXCEPT ![l.awPath] = fs[TempPath(l)], ![TempPath(l)] = NoFile]
        /\ proc' = [q \in Procs |->
                      IF q = p
                      THEN Continue([l EXCEPT !.renamed = @ \cup {l.awPath},
                                              !.committed = @ \cup {<<l.awPath, l.awBytes>>},
                                              !.last = @ \cup {l.awPath}],
                                    TRUE)
                      ELSE [proc[q] EXCEPT !.fd = FdAfterRename(@, TempPath(l), l.awPath),
                                           !.last = @ \ {l.awPath}]]
        /\ NoFault
     \/ /\ fs[TempPath(l)] = NoFile
        /\ proc' = [proc EXCEPT ![p] = [l EXCEPT !.pc = "aw_cleanup"]]
        /\ UNCHANGED fs
        /\ NoFault
     \/ /\ fs[TempPath(l)] # NoFile
        /\ proc' = [proc EXCEPT ![p] = [l EXCEPT !.pc = "aw_cleanup"]]
        /\ UNCHANGED fs
        /\ Fault
  /\ UNCHANGED env

\* let _ = std::fs::remove_file(&temp_path) after a failed rename
AwCleanup(p) ==
  LET l == proc[p] IN
  /\ l.pc = "aw_cleanup"
  /\ fs' = [fs EXCEPT ![TempPath(l)] = NoFile]
  /\ proc' = [q \in Procs |->
                IF q = p THEN Continue(l, FALSE)
                ELSE [proc[q] EXCEPT !.fd = FdAfterRemove(@, TempPath(l))]]
  /\ NoFault
  /\ UNCHANGED env

(***************************************************************************)
(* Profile store reads and the active pointer.                             *)
(***************************************************************************)
\* load_profile_by_id / get_opencode_profile with no I/O fault: Some(profile) or None
LoadProfileById(fam, files, id) ==
  IF fam # "opencode" /\ ~ValidateProfileId(id) THEN None
  ELSE IF files[ProfilePath(id)] = NoFile THEN None
  ELSE ParseProfile(files[ProfilePath(id)])

\* the characters read_to_string returns for the pointer file
PointerString(b) == IF b[1] = "txt" THEN b[2] ELSE <<"?">>

\* a pointer read that answers the text of the file as it is
GetActiveProfileIdUntrimmed(files) ==
  IF files[ActiveProfilePath] = NoFile THEN None
  ELSE Some(PointerString(files[ActiveProfilePath]))

\* get_active_profile_id_internal / get_active_opencode_profile_id
GetActiveProfileId(files) ==
  IF files[ActiveProfilePath] = NoFile THEN None
  ELSE LET id == Trim(PointerString(files[ActiveProfilePath]))
       IN IF id = <<>> THEN None ELSE Some(id)

(***************************************************************************)
(* apply(profileId)                                                        *)
(***************************************************************************)
\* write_codex_live_atomic begins: validate_toml(config_toml)?
CodexValidate(l) ==
  IF ValidateToml(Unwrap(l.prof).configToml)
  THEN [l EXCEPT !.pc = "cx_read_auth"]
  ELSE Finish(l, "err", "validate")

\* apply_*_profile after the profile is loaded
AfterLoad(fam, l) ==
  CASE fam = "codex" -> CodexValidate(l)
    [] fam = "opencode" -> [l EXCEPT !.pc = "oc_read_cfg"]
    [] fam = "openclaw" -> [l EXCEPT !.pc = "cl_read"]

\* an apply that records the id as active before it loads the profile
ApplyPointerFirst(p, id) ==
  /\ proc[p].pc = "idle"
  /\ LET r == LoadProfileById(family, fs, id)
         l == [IdleLocal EXCEPT !.op = "apply", !.id = id, !.pre = fs, !.prof = r]
     IN \/ /\ proc' = [proc EXCEPT ![p] =
                        IF IsSome(r) THEN AfterLoad(family, l) ELSE Finish(l, "err", "load")]
           /\ Issue(p, FALSE)
        \/ /\ IsSome(r)
           /\ proc' = [proc EXCEPT ![p] = Finish([l EXCEPT !.prof = None], "err", "load")]
           /\ Issue(p, TRUE)
  /\ fs' = [fs EXCEPT ![ActiveProfilePath] = Text(id)]
  /\ UNCHANGED env

\* apply_codex_profile / apply_opencode_profile / apply_openclaw_profile: the
\* profile is loaded (None: invalid id, no such file, read or parse failure)
Apply(p, id) ==
  /\ proc[p].pc = "idle"
  /\ LET r == LoadProfileById(family, fs, id)
         l == [IdleLocal EXCEPT !.op = "apply", !.id = id, !.pre = fs, !.prof = r]
     IN \/ /\ proc' = [proc EXCEPT ![p] =
                        IF IsSome(r) THEN AfterLoad(family, l) ELSE Finish(l, "err", "load")]
           /\ Issue(p, FALSE)
        \/ /\ IsSome(r)
           /\ proc' = [proc EXCEPT ![p] = Finish([l EXCEPT !.prof = None], "err", "load")]
           /\ Issue(p, TRUE)
  /\ UNCHANGED <<env, fs>>

\* write_codex_live_atomic: old_auth = the bytes of auth.json, if it exists
CodexReadOldAuth(p) ==
  LET l == proc[p] IN
  /\ l.pc = "cx_read_auth"
  /\ \/ /\ proc' = [proc EXCEPT ![p] =
                      [l EXCEPT !.pc = "cx_read_cfg",
                                !.oldAuth = IF fs[CodexAuthPath] # NoFile
                                            THEN Some(fs[CodexAuthPath]) ELSE None]]
        /\ NoFault
     \/ /\ proc' = [proc EXCEPT ![p] = Finish(l, "err", "read")]
        /\ Fault
  /\ UNCHANGED <<env, fs>>

\* the first write of the group: write_json_object_file(&auth_path, auth)
CodexWriteAuth(l) ==
  StartAw(l, CodexAuthPath, ToStringPretty(JObj(Unwrap(l.prof).auth)), "cx_auth")

\* write_codex_live_atomic: old_config = the bytes of config.toml, if it exists
CodexReadOldConfig(p) ==
  LET l == proc[p] IN
  /\ l.pc = "cx_read_cfg"
  /\ \/ /\ proc' = [proc EXCEPT ![p] =
                      CodexWriteAuth([l EXCEPT !.oldCfg = IF fs[CodexConfigPath] # NoFile
                                                          THEN Some(fs[CodexConfigPath])
                                                          ELSE None])]
        /\ NoFault
     \/ /\ proc' = [proc EXCEPT ![p] = Finish(l, "err", "read")]
        /\ Fault
  /\ UNCHANGED <<env, fs>>

\* rollback when auth.json did not exist: let _ = remove_file(&auth_path)
CodexRemoveAuth(p) ==
  LET l == proc[p] IN
  /\ l.pc = "cx_rm_auth"
  /\ fs' = [fs EXCEPT ![CodexAuthPath] = NoFile]
  /\ proc' = [q \in Procs |->
                IF q = p THEN CodexRollbackConfig(l)
                ELSE [proc[q] EXCEPT !.fd = FdAfterRemove(@, CodexAuthPath)]]
  /\ NoFault
  /\ UNCHANGED env

\* rollback when config.toml did not exist: let _ = remove_file(&config_path)
CodexRemoveConfig(p) ==
  LET l == proc[p] IN
  /\ l.pc = "cx_rm_cfg"
  /\ fs' = [fs EXCEPT ![CodexConfigPath] = NoFile]
  /\ proc' = [q \in Procs |->
                IF q = p THEN Finish(l, "err", "write")
                ELSE [proc[q] EXCEPT !.fd = FdAfterRemove(@, CodexConfigPath)]]
  /\ NoFault
  /\ UNCHANGED env

\* the write of the merged config document begins
OpenCodeWriteConfig(l, path, config) ==
  StartAw(l, path, ToStringPretty(MergeOpenCodeProviders(config, Unwrap(l.prof))), "oc_cfg")

\* apply_opencode_profile step 1: resolve the path, read_json_file (a read
\* error reads as {}), merge the providers, start the write
OpenCodeReadConfig(p) ==
  LET l == proc[p]
      path == GetOpenCodeConfigPath(fs)
  IN
  /\ l.pc = "oc_read_cfg"
  /\ \/ /\ proc' = [proc EXCEPT ![p] =
                      OpenCodeWriteConfig(l, path, ReadJsonFileValue(fs[path]))]
        /\ NoFault
     \/ /\ fs[path] # NoFile
        /\ proc' = [proc EXCEPT ![p] = OpenCodeWriteConfig(l, path, JObj(EmptyMap))]
        /\ Fault
     \/ /\ proc' = [proc EXCEPT ![p] = Finish(l, "err", "read")]
        /\ Fault
  /\ UNCHANGED <<env, fs>>

\* the write of the merged auth document begins
OpenCodeWriteAuth(l, path, auth) ==
  StartAw(l, path, ToStringPretty(MergeOpenCodeAuth(auth, Unwrap(l.prof))), "oc_auth")

\* apply_opencode_profile step 2: the same for the auth file
OpenCodeReadAuth(p) ==
  LET l == proc[p]
      path == GetOpenCodeAuthPath(fs)
  IN
  /\ l.pc = "oc_read_auth"
  /\ \/ /\ proc' = [proc EXCEPT ![p] =
                      OpenCodeWriteAuth(l, path, ReadJsonFileValue(fs[path]))]
        /\ NoFault
     \/ /\ fs[path] # NoFile
        /\ proc' = [proc EXCEPT ![p] = OpenCodeWriteAuth(l, path, JObj(EmptyMap))]
        /\ Fault
     \/ /\ proc' = [proc EXCEPT ![p] = Finish(l, "err", "read_auth")]
        /\ Fault
  /\ UNCHANGED <<env, fs>>

\* read_openclaw_config_raw with no I/O fault: <<TRUE, value>> or <<FALSE>>
ReadOpenClawConfigRaw(files) ==
  IF files[OpenClawConfigPath] = NoFile THEN <<TRUE, JObj(EmptyMap)>>
  ELSE FromStr(files[OpenClawConfigPath])

\* the document write_openclaw_config writes over base
OpenClawMerged(base, profile) == DeepMergeJson(base, BuildOpenClawConfig(profile))

\* write_openclaw_config up to its atomic_write: read, build, deep merge
OpenClawReadConfig(p) ==
  LET l == proc[p]
      base == ReadOpenClawConfigRaw(fs)
  IN
  /\ l.pc = "cl_read"
  /\ \/ /\ proc' = [proc EXCEPT ![p] =
                      IF base[1]
                      THEN StartAw(l, OpenClawConfigPath,
                                   ToStringPretty(OpenClawMerged(base[2], Unwrap(l.prof))),
                                   "cl_cfg")
                      ELSE Finish(l, "err", "read")]
        /\ NoFault
     \/ /\ proc' = [proc EXCEPT ![p] = Finish(l, "err", "read")]
        /\ Fault
  /\ UNCHANGED <<env, fs>>

\* the live files an apply of the family writes
LiveTargets(fam, files) ==
  CASE fam = "codex" -> {CodexAuthPath, CodexConfigPath}
    [] fam = "opencode" -> {GetOpenCodeConfigPath(files), GetOpenCodeAuthPath(files)}
    [] fam = "openclaw" -> {OpenClawConfigPath}

(***************************************************************************)
(* delete(id)                                                              *)
(***************************************************************************)
\* delete_*_profile: the profile document is removed if it exists
Delete(p, id) ==
  /\ Issue(p, FALSE)
  /\ proc[p].pc = "idle"
  /\ LET l == [IdleLocal EXCEPT !.op = "delete", !.id = id, !.pre = fs]
     IN IF family # "opencode" /\ ~ValidateProfileId(id)
        THEN /\ proc' = [proc EXCEPT ![p] = Finish(l, "err", "load")]
             /\ UNCHANGED fs
        ELSE /\ fs' = [fs EXCEPT ![ProfilePath(id)] = NoFile]
             /\ proc' = [q \in Procs |->
                           IF q = p THEN [l EXCEPT !.pc = "del_read_active"]
                           ELSE [proc[q] EXCEPT !.fd = FdAfterRemove(@, ProfilePath(id))]]
  /\ UNCHANGED env

\* a delete that takes every id for the active one
DeleteIsActiveAlways(fam, files, id) == TRUE

\* delete_*_profile: is the deleted id the active one?
DeleteIsActive(fam, files, id) ==
  IF fam = "opencode"
  THEN files[ActiveProfilePath] # NoFile
       /\ Trim(PointerString(files[ActiveProfilePath])) = id
  ELSE GetActiveProfileId(files) = Some(id)

\* delete_*_profile after the pointer could not be read: Codex and OpenClaw
\* skip the clearing (if let Ok), OpenCode fails on get_active_profile_path()?
\* and skips on read_to_string
DeleteReadFailed(fam, l) == Finish(l, "ok", "none")

\* delete_*_profile reads the pointer
DeleteReadActive(p) ==
  LET l == proc[p] IN
  /\ l.pc = "del_read_active"
  /\ \/ /\ proc' = [proc EXCEPT ![p] =
                      IF DeleteIsActive(family, fs, l.id)
                      THEN [l EXCEPT !.pc = "del_clear"]
                      ELSE Finish(l, "ok", "none")]
        /\ NoFault
     \/ /\ fs[ActiveProfilePath] # NoFile
        /\ proc' = [proc EXCEPT ![p] = DeleteReadFailed(family, l)]
        /\ Fault
  /\ UNCHANGED <<env, fs>>

\* let _ = std::fs::remove_file(active_path)
DeleteClearActive(p) ==
  LET l == proc[p] IN
  /\ l.pc = "del_clear"
  /\ fs' = [fs EXCEPT ![ActiveProfilePath] = NoFile]
  /\ proc' = [q \in Procs |->
                IF q = p THEN Finish(l, "ok", "none")
                ELSE [proc[q] EXCEPT !.fd = FdAfterRemove(@, ActiveProfilePath)]]
  /\ NoFault
  /\ UNCHANGED env

\* the command has returned; the caller may issue the next one
Return(p) ==
  /\ proc[p].pc = "done"
  /\ proc' = [proc EXCEPT ![p] = IdleLocal]
  /\ NoFault
  /\ UNCHANGED <<env, fs>>

(***************************************************************************)
(* save(profile), get(id), duplicate(id, newName)                          *)
(***************************************************************************)
\* the times Utc::now() may return next
Now == clock..MaxTime

\* save_codex_profile / save_openclaw_profile up to write_profile_file: the
\* record to write, or None when get_profile_path(&profile.id)? fails.  u is
\* the value of Uuid::new_v4(), t1 and t2 those of now_rfc3339(), readOk
\* whether load_profile_by_id could read the stored document
SaveRecord(files, P, u, t1, t2, readOk) ==
  IF Trim(P.id) = <<>>
  THEN Some([P EXCEPT !.id = u, !.createdAt = t1, !.updatedAt = t2])
  ELSE IF ~ValidateProfileId(P.id) THEN None
  ELSE IF files[ProfilePath(P.id)] # NoFile
       THEN LET old == IF readOk THEN ParseProfile(files[ProfilePath(P.id)]) ELSE None
            IN Some([P EXCEPT !.createdAt = IF IsSome(old) THEN Unwrap(old).createdAt ELSE @,
                              !.updatedAt = t2])
       ELSE IF P.createdAt = Blank
            THEN Some([P EXCEPT !.createdAt = t1, !.updatedAt = t2])
            ELSE Some([P EXCEPT !.updatedAt = t2])

\* a save_opencode_profile that leaves updated_at as passed
SaveOpenCodeRecordStale(P, t2) == Some(P)

\* save_opencode_profile up to atomic_write
SaveOpenCodeRecord(P, t2) == Some([P EXCEPT !.updatedAt = t2])

\* the profiles the caller passes to save
SaveIds == {<<>>, IdA, IdB, IdBad}

SaveArgs(fam) ==
  { [MakeProfile(id, MainPayload(fam)) EXCEPT !.name = "gamma", !.createdAt = c] :
      id \in SaveIds, c \in {Blank, Epoch + 1} }

\* save_codex_profile / save_opencode_profile / save_openclaw_profile
Save(p, P) ==
  /\ proc[p].pc = "idle"
  /\ \E u \in Uuids \ minted, t1 \in Now, readOk \in BOOLEAN : \E t2 \in t1..MaxTime :
       LET l == [IdleLocal EXCEPT !.op = "save", !.id = P.id, !.arg = Some(P), !.pre = fs,
                                  !.failed = IF readOk THEN "none" ELSE "save_read"]
           r == IF family = "opencode" THEN SaveOpenCodeRecord(P, t2)
                ELSE SaveRecord(fs, P, u, t1, t2, readOk)
           reads == family # "opencode" /\ Trim(P.id) # <<>> /\ ValidateProfileId(P.id)
                      /\ fs[ProfilePath(P.id)] # NoFile
       IN /\ readOk \/ reads
          /\ Issue(p, ~readOk)
          /\ proc' = [proc EXCEPT ![p] =
                        IF IsSome(r)
                        THEN StartAw([l EXCEPT !.prof = r], ProfilePath(Unwrap(r).id),
                                     ProfileText(Unwrap(r)), "save")
                        ELSE Finish(l, "err", "load")]
          /\ clock' = IF IsSome(r) THEN t2 ELSE clock
          /\ minted' = IF family # "opencode" /\ Trim(P.id) = <<>>
                       THEN minted \cup {u} ELSE minted
  /\ UNCHANGED <<world, fs>>

\* a get that answers Ok for a profile it did not find
GetLenient(p, id) ==
  /\ proc[p].pc = "idle"
  /\ LET r == LoadProfileById(family, fs, id)
         l == [IdleLocal EXCEPT !.op = "get", !.id = id, !.pre = fs]
     IN \/ /\ proc' = [proc EXCEPT ![p] =
                        IF IsSome(r) THEN Finish([l EXCEPT !.ret = r], "ok", "none")
                        ELSE Finish(l, "ok", "none")]
           /\ Issue(p, FALSE)
        \/ /\ IsSome(r)
           /\ proc' = [proc EXCEPT ![p] = Finish(l, "err", "load")]
           /\ Issue(p, TRUE)
  /\ UNCHANGED <<env, fs>>

\* get_codex_profile / get_opencode_profile / get_openclaw_profile
Get(p, id) ==
  /\ proc[p].pc = "idle"
  /\ LET r == LoadProfileById(family, fs, id)
         l == [IdleLocal EXCEPT !.op = "get", !.id = id, !.pre = fs]
     IN \/ /\ proc' = [proc EXCEPT ![p] =
                        IF IsSome(r) THEN Finish([l EXCEPT !.ret = r], "ok", "none")
                        ELSE Finish(l, "err", "load")]
           /\ Issue(p, FALSE)
        \/ /\ IsSome(r)
           /\ proc' = [proc EXCEPT ![p] = Finish(l, "err", "load")]
           /\ Issue(p, TRUE)
  /\ UNCHANGED <<env, fs>>

\* the names the caller passes to duplicate
NewNames == {"Beta"}

\* duplicate_*_profile: the record returned and the record written (OpenCode
\* writes through save_opencode_profile, which reads the clock again)
DuplicateRecords(fam, source, newName, u, t1, t2) ==
  LET copy == [source EXCEPT !.id = u, !.name = newName, !.createdAt = t1, !.updatedAt = t1]
  IN <<copy, IF fam = "opencode" THEN [copy EXCEPT !.updatedAt = t2] ELSE copy>>

\* duplicate_codex_profile / duplicate_opencode_profile / duplicate_openclaw_profile
Duplicate(p, id, newName) ==
  /\ proc[p].pc = "idle"
  /\ LET r == LoadProfileById(family, fs, id)
         l == [IdleLocal EXCEPT !.op = "duplicate", !.id = id, !.pre = fs]
     IN \/ /\ ~IsSome(r)
           /\ proc' = [proc EXCEPT ![p] = Finish(l, "err", "load")]
           /\ Issue(p, FALSE)
           /\ UNCHANGED <<clock, minted>>
        \/ /\ IsSome(r)
           /\ proc' = [proc EXCEPT ![p] = Finish(l, "err", "load")]
           /\ Issue(p, TRUE)
           /\ UNCHANGED <<clock, minted>>
        \/ /\ IsSome(r)
           /\ \E u \in Uuids \ minted, t1 \in Now : \E t2 \in t1..MaxTime :
                LET d == DuplicateRecords(family, Unwrap(r), newName, u, t1, t2)
                IN /\ proc' = [proc EXCEPT ![p] =
                                 StartAw([l EXCEPT !.ret = Some(d[1]), !.prof = Some(d[2])],
                                         ProfilePath(u), ProfileText(d[2]), "dup")]
                   /\ clock' = IF family = "opencode" THEN t2 ELSE t1
                   /\ minted' = minted \cup {u}
           /\ Issue(p, FALSE)
  /\ UNCHANGED <<world, fs>>

\* get_active_codex_profile_id / get_active_opencode_profile_id /
\* get_active_openclaw_profile_id: Ok(None), Ok(Some(id)), or the error of
\* read_to_string
GetActive(p) ==
  /\ proc[p].pc = "idle"
  /\ LET l == [IdleLocal EXCEPT !.op = "get_active", !.pre = fs]
     IN \/ /\ proc' = [proc EXCEPT ![p] =
                        Finish([l EXCEPT !.ret = GetActiveProfileId(fs)], "ok", "none")]
           /\ Issue(p, FALSE)
        \/ /\ fs[ActiveProfilePath] # NoFile
           /\ proc' = [proc EXCEPT ![p] = Finish(l, "err", "read")]
           /\ Issue(p, TRUE)
  /\ UNCHANGED <<env, fs>>

(***************************************************************************)
(* list()                                                                  *)
(***************************************************************************)
\* the characters of the display names of the model
Chars(name) ==
  CASE name = "alpha" -> <<"a", "l", "p", "h", "a">>
    [] name = "Beta" -> <<"B", "e", "t", "a">>
    [] name = "gamma" -> <<"g", "a", "m", "m", "a">>
    [] name = "Default" -> <<"D", "e", "f", "a", "u", "l", "t">>

\* the UTF-8 byte of a character of a display name
CodePoint(c) ==
  CASE c = "B" -> 66 [] c = "a" -> 97 [] c = "b" -> 98 [] c = "e" -> 101 [] c = "g" -> 103
    [] c = "h" -> 104 [] c = "l" -> 108 [] c = "m" -> 109 [] c = "p" -> 112 [] c = "t" -> 116
    [] c = "D" -> 68 [] c = "d" -> 100 [] c = "f" -> 102 [] c = "u" -> 117

\* str::to_lowercase
ToLowercase(s) ==
  [i \in 1..Len(s) |-> IF s[i] = "B" THEN "b" ELSE IF s[i] = "D" THEN "d" ELSE s[i]]

\* Ord for String (a.cmp(&b) is not Greater): the bytes compared in order
RECURSIVE StrLeq(_, _)
StrLeq(s, t) ==
  IF s = <<>> THEN TRUE
  ELSE IF t = <<>> THEN FALSE
  ELSE IF Head(s) = Head(t) THEN StrLeq(Tail(s), Tail(t))
  ELSE CodePoint(Head(s)) < CodePoint(Head(t))

\* the key sort_by compares: codex.rs and openclaw.rs lower the case of the
\* name, opencode.rs compares the names as they are
SortKey(fam, r) == IF fam = "opencode" THEN Chars(r.name) ELSE ToLowercase(Chars(r.name))

\* the entries of read_dir(profiles_dir) whose path.extension() is "json":
\* a document stored under an id with a path separator lies outside the
\* directory, and the file name ".json" has no extension
JsonEntries(files) ==
  { path \in ProfilePaths :
      /\ files[path] # NoFile
      /\ path[2] # <<>>
      /\ \A i \in 1..Len(path[2]) : path[2][i] # "/" }

\* the vectors list_*_profiles may return when the reads of `unread` fail:
\* the profiles of the entries that parse, in an order sort_by leaves them in
\* (it is stable, and read_dir yields the entries in any order)
ListProfiles(fam, files, unread) ==
  LET parsed == { path \in JsonEntries(files) \ unread : IsSome(ParseProfile(files[path])) }
      n == Cardinality(parsed)
      record(path) == Unwrap(ParseProfile(files[path]))
      orders == { s \in [1..n -> parsed] :
                    /\ \A i, j \in 1..n : i # j => s[i] # s[j]
                    /\ \A i, j \in 1..n :
                         i < j => StrLeq(SortKey(fam, record(s[i])), SortKey(fam, record(s[j]))) }
  IN { [i \in 1..n |-> record(s[i])] : s \in orders }

\* a list that gives up at a document it cannot read or parse
ListStrict(p) ==
  /\ proc[p].pc = "idle"
  /\ p \in callers
  /\ calls > 0
  /\ calls' = calls - 1
  /\ LET l == [IdleLocal EXCEPT !.op = "list", !.pre = fs] IN
     \/ \E unread \in SUBSET JsonEntries(fs) : \E v \in ListProfiles(family, fs, unread) :
          /\ Cardinality(unread) <= faults
          /\ faults' = faults - Cardinality(unread)
          /\ proc' = [proc EXCEPT ![p] =
                        IF Len(v) = Cardinality(JsonEntries(fs))
                        THEN Finish([l EXCEPT !.ret = Some(v)], "ok", "none")
                        ELSE Finish(l, "err", "load")]
     \/ /\ faults > 0
        /\ faults' = faults - 1
        /\ proc' = [proc EXCEPT ![p] =
                      IF family = "opencode"
                      THEN Finish([l EXCEPT !.ret = Some(<<>>), !.failed = "read_dir"], "ok", "none")
                      ELSE Finish([l EXCEPT !.failed = "read_dir"], "err", "read")]
  /\ UNCHANGED <<env, fs>>

\* list_codex_profiles / list_opencode_profiles / list_openclaw_profiles: a
\* document that cannot be read or parsed is skipped; when read_dir fails,
\* Codex and OpenClaw return the error and OpenCode (if let Ok) no profile
List(p) ==
  /\ proc[p].pc = "idle"
  /\ p \in callers
  /\ calls > 0
  /\ calls' = calls - 1
  /\ LET l == [IdleLocal EXCEPT !.op = "list", !.pre = fs] IN
     \/ \E unread \in SUBSET JsonEntries(fs) : \E v \in ListProfiles(family, fs, unread) :
          /\ Cardinality(unread) <= faults
          /\ faults' = faults - Cardinality(unread)
          /\ proc' = [proc EXCEPT ![p] =
                        Finish([l EXCEPT !.ret = Some(v),
                                         !.failed = IF unread = {} THEN "none" ELSE "list_read"],
                               "ok", "none")]
     \/ /\ faults > 0
        /\ faults' = faults - 1
        /\ proc' = [proc EXCEPT ![p] =
                      IF family = "opencode"
                      THEN Finish([l EXCEPT !.ret = Some(<<>>), !.failed = "read_dir"], "ok", "none")
                      ELSE Finish([l EXCEPT !.failed = "read_dir"], "err", "read")]
  /\ UNCHANGED <<env, fs>>

(***************************************************************************)
(* create_default_profile (OpenCode)                                       *)
(***************************************************************************)
\* the profile create_default_profile builds: id u, created at time t
DefaultProfile(u, t) ==
  [id |-> u, name |-> "Default", createdAt |-> t, updatedAt |-> t,
   auth |-> EmptyMap, configToml |-> <<>>, defaultModel |-> None, providers |-> NoProviders]

\* create_default_profile up to the atomic_write of save_opencode_profile:
\* list_opencode_profiles (a document it cannot read is skipped, a directory
\* it cannot read lists nothing), the error when a profile is listed, else
\* the new profile, saved with the time of the save
CreateDefaultProfile(p) ==
  /\ proc[p].pc = "idle"
  /\ family = "opencode"
  /\ p \in callers
  /\ calls > 0
  /\ calls' = calls - 1
  /\ \E unread \in SUBSET JsonEntries(fs), dirOk \in BOOLEAN :
       LET n == IF dirOk THEN Cardinality(unread) ELSE 1
           listed == IF dirOk THEN ListProfiles(family, fs, unread) ELSE {<<>>}
           l == [IdleLocal EXCEPT !.op = "create_default", !.pre = fs,
                                  !.failed = IF ~dirOk THEN "read_dir"
                                             ELSE IF unread = {} THEN "none" ELSE "list_read"]
       IN /\ dirOk \/ unread = {}
          /\ n <= faults
          /\ faults' = faults - n
          /\ \E profiles \in listed :
               IF profiles # <<>>
               THEN /\ proc' = [proc EXCEPT ![p] = Finish(l, "err", "exists")]
                    /\ UNCHANGED <<clock, minted>>
               ELSE \E u \in Uuids \ minted, t1 \in Now : \E t2 \in t1..MaxTime :
                      LET profile == DefaultProfile(u, t1)
                          r == SaveOpenCodeRecord(profile, t2)
                      IN /\ proc' = [proc EXCEPT ![p] =
                                       StartAw([l EXCEPT !.id = u, !.ret = Some(profile),
                                                         !.prof = r],
                                               ProfilePath(u), ProfileText(Unwrap(r)), "cd_save")]
                         /\ clock' = t2
                         /\ minted' = minted \cup {u}
  /\ UNCHANGED <<world, fs>>

(***************************************************************************)
(* Factory settings.json (config.rs).  write_config_file stages the text   *)
(* in settings.tmp and renames it, the steps of atomic_write; the settings *)
(* file is a regular file, not a symlink.                                  *)
(***************************************************************************)
\* ~/.factory/settings.json
FactorySettingsPath == <<"factory", "settings", "json">>

FactoryPaths == {FactorySettingsPath, WithExtension(FactorySettingsPath, "tmp")}

\* a read_config_file that reads a file it cannot parse as no file
ReadConfigFileLenient(b) ==
  IF FromStr(b)[1] THEN <<"Ok", FromStr(b)[2]>> ELSE <<"NotFound">>

\* read_config_file on a file content it could read: NotFound for no file
\* and for white space alone, Ok(value), or ParseError
ReadConfigFile(b) ==
  IF b = NoFile THEN <<"NotFound">>
  ELSE IF b[1] = "txt" /\ Trim(b[2]) = <<>> THEN <<"NotFound">>
  ELSE IF FromStr(b)[1] THEN <<"Ok", FromStr(b)[2]>>
  ELSE <<"ParseError">>

\* serde_json::to_value of a CustomModel (camelCase, None fields skipped)
CustomModelValue(m) ==
  ObjectOf({ <<"model", Some(JStr(m.model))>>,
             <<"id", OptStr(m.id)>>,
             <<"displayName", OptStr(m.displayName)>>,
             <<"baseUrl", Some(JStr(m.baseUrl))>>,
             <<"apiKey", Some(JStr(m.apiKey))>>,
             <<"provider", Some(JStr(m.provider))>>,
             <<"maxOutputTokens", IF IsSome(m.maxOutputTokens)
                                  THEN Some(JNum(Unwrap(m.maxOutputTokens))) ELSE None>> })

\* serde_json::to_value(&models)
CustomModelsValue(models) == JArr([i \in 1..Len(models) |-> CustomModelValue(models[i])])

\* the document save_custom_models writes over what read_config_file gave
WithCustomModels(read, models) ==
  LET config == IF read[1] = "Ok" THEN read[2] ELSE JObj(EmptyMap)
  IN IF IsObj(config)
     THEN JObj(Insert(config[2], "customModels", CustomModelsValue(models)))
     ELSE JObj("customModels" :> CustomModelsValue(models))

Gpt ==
  [model |-> "gpt", id |-> Some("custom:gpt-0"), displayName |-> None, baseUrl |-> "https://x",
   apiKey |-> "k1", provider |-> "openai", maxOutputTokens |-> Some(4)]

Sonnet ==
  [model |-> "sonnet", id |-> None, displayName |-> Some("Sonnet"), baseUrl |-> "https://y",
   apiKey |-> "k2", provider |-> "anthropic", maxOutputTokens |-> None]

\* the model lists the caller passes to save_custom_models
ModelLists == { <<>>, <<Gpt>>, <<Sonnet, Gpt>> }

\* save_custom_models up to the write of settings.tmp: read_config_file (a
\* read that fails is a ParseError), the CONFIG_PARSE_ERROR return, else
\* customModels inserted and write_config_file begun
SaveCustomModels(p, models) ==
  /\ proc[p].pc = "idle"
  /\ family = "factory"
  /\ LET l == [IdleLocal EXCEPT !.op = "save_models", !.arg = Some(models), !.pre = fs]
         read == ReadConfigFile(fs[FactorySettingsPath])
     IN \/ /\ proc' = [proc EXCEPT ![p] =
                         IF read[1] = "ParseError" THEN Finish(l, "err", "parse")
                         ELSE StartAw(l, FactorySettingsPath,
                                      ToStringPretty(WithCustomModels(read, models)), "models")]
           /\ Issue(p, FALSE)
        \/ /\ fs[FactorySettingsPath] # NoFile
           /\ proc' = [proc EXCEPT ![p] = Finish([l EXCEPT !.failed = "read"], "err", "parse")]
           /\ Issue(p, TRUE)
  /\ UNCHANGED <<env, fs>>

(***************************************************************************)
(* Specifications.  Spec: one caller.  SpecConc: two overlapping callers.  *)
(***************************************************************************)
\* the profile directory as earlier saves left it: the document of IdA is
\* any profile of the family or corrupt, that of IdB is absent or a profile
InitialStore(fam) ==
  { [id \in StoreIds |-> IF id = IdA THEN a ELSE b] :
      a \in {Corrupt} \cup {ProfileText(MakeProfile(IdA, pl)) : pl \in Payloads(fam)},
      b \in {NoFile} \cup {ProfileText(MakeProfile(IdB, pl)) : pl \in Payloads(fam)} }

\* deep_merge_json(&mut base, &overlay) before it runs
MergeCall(base, overlay) == [base |-> base, overlay |-> overlay, out |-> None, again |-> None]

\* build_openclaw_config(&profile) before it runs
BuildCall(profile) == [profile |-> profile, out |-> None]

InitFs(store, live) ==
  [path \in AllPaths |->
     IF path \in LivePaths THEN live[path]
     ELSE IF path \in {ProfilePath(id) : id \in StoreIds}
          THEN store[path[2]]
          ELSE NoFile]

Init ==
  /\ family \in Families
  /\ \E store \in InitialStore(family), live \in InitialLive(family) :
       fs = InitFs(store, live)
  /\ proc = [p \in Procs |-> IdleLocal]
  /\ callers = {"A"}
  /\ faults = MaxFaults
  /\ calls = MaxCalls
  /\ clock = Epoch
  /\ minted = {}
  /\ merge = MergeCall(JObj(EmptyMap), JObj(EmptyMap))
  /\ built = BuildCall(NoPayload)

Next ==
  \E p \in Procs :
    \/ \E id \in ArgIds : Apply(p, id)
    \/ \E id \in ArgIds : Delete(p, id)
    \/ CodexReadOldAuth(p)
    \/ CodexReadOldConfig(p)
    \/ CodexRemoveAuth(p)
    \/ CodexRemoveConfig(p)
    \/ OpenCodeReadConfig(p)
    \/ OpenCodeReadAuth(p)
    \/ OpenClawReadConfig(p)
    \/ AwOpen(p)
    \/ AwWrite(p)
    \/ AwRename(p)
    \/ AwCleanup(p)
    \/ DeleteReadActive(p)
    \/ DeleteClearActive(p)
    \/ Return(p)

Spec == Init /\ [][Next]_vars

\* two callers, one stored profile, the live files as the external tool left them
InitConc ==
  /\ family \in Families
  /\ \E live \in InitialLive(family) :
       fs = InitFs([id \in StoreIds |->
                      IF id = IdA THEN ProfileText(MakeProfile(IdA, MainPayload(family)))
                      ELSE NoFile],
                   live)
  /\ proc = [p \in Procs |-> IdleLocal]
  /\ callers = Procs
  /\ faults = MaxConcFaults
  /\ calls = MaxCalls
  /\ clock = Epoch
  /\ minted = {}
  /\ merge = MergeCall(JObj(EmptyMap), JObj(EmptyMap))
  /\ built = BuildCall(NoPayload)

SpecConc == InitConc /\ [][Next]_vars

\* the live files all absent, or each .json one as the external tool wrote it
InitialLiveTwo(fam) ==
  { [p \in LivePaths |-> NoFile],
    [p \in LivePaths |->
       IF p = CodexConfigPath THEN IF fam = "codex" THEN Text(<<"b", "=", "2">>) ELSE NoFile
       ELSE IF p \in LiveTargets(fam, [q \in LivePaths |-> NoFile])
            THEN JsonText("compact", JObj(Theme))
            ELSE NoFile] }

\* two callers, two stored profiles with different payloads
InitTwo ==
  /\ family \in Families
  /\ \E live \in InitialLiveTwo(family) :
       fs = InitFs([id \in StoreIds |->
                      IF id = IdA THEN ProfileText(MakeProfile(IdA, MainPayload(family)))
                      ELSE ProfileText(MakeProfile(IdB, SecondPayload(family)))],
                   live)
  /\ proc = [p \in Procs |-> IdleLocal]
  /\ callers = Procs
  /\ faults = MaxConcFaults
  /\ calls = MaxCalls
  /\ clock = Epoch
  /\ minted = {}
  /\ merge = MergeCall(JObj(EmptyMap), JObj(EmptyMap))
  /\ built = BuildCall(NoPayload)

SpecTwo == InitTwo /\ [][Next]_vars

\* the profile store one caller works on: the document of IdA is a profile
\* created at Epoch or corrupt; the pointer file is absent, names IdA as
\* an apply wrote it or between white space, or is empty or white space
InitStore ==
  /\ family \in Families
  /\ \E a \in {ProfileText(MakeProfile(IdA, MainPayload(family))), Corrupt},
        ptr \in {NoFile, Text(IdA), Text(<<" ">> \o IdA \o <<"\n">>), Empty, Text(<<" ", "\n">>)} :
       fs = [InitFs([id \in StoreIds |-> IF id = IdA THEN a ELSE NoFile],
                    [q \in LivePaths |-> NoFile])
               EXCEPT ![ActiveProfilePath] = ptr]
  /\ proc = [p \in Procs |-> IdleLocal]
  /\ callers = {"A"}
  /\ faults = MaxFaults
  /\ calls = MaxCalls
  /\ clock = Epoch + 1
  /\ minted = {}
  /\ merge = MergeCall(JObj(EmptyMap), JObj(EmptyMap))
  /\ built = BuildCall(NoPayload)

NextStore ==
  \E p \in Procs :
    \/ \E P \in SaveArgs(family) : Save(p, P)
    \/ \E id \in ArgIds : Get(p, id)
    \/ \E id \in ArgIds, newName \in NewNames : Duplicate(p, id, newName)
    \/ List(p)
    \/ GetActive(p)
    \/ \E id \in ArgIds : Delete(p, id)
    \/ DeleteReadActive(p)
    \/ DeleteClearActive(p)
    \/ AwOpen(p)
    \/ AwWrite(p)
    \/ AwRename(p)
    \/ AwCleanup(p)
    \/ Return(p)

SpecStore == InitStore /\ [][NextStore]_vars

\* OpenCode, one caller: the store holds under IdA no document, a profile
\* or a corrupt document and under IdB none or a profile; the pointer file is
\* absent or names IdA; the live files are absent or as the tool wrote them
InitDefault ==
  /\ family = "opencode"
  /\ \E a \in {NoFile, ProfileText(MakeProfile(IdA, MainPayload(family))), Corrupt},
        b \in {NoFile, ProfileText(MakeProfile(IdB, SecondPayload(family)))},
        ptr \in {NoFile, Text(IdA)},
        live \in InitialLiveTwo(family) :
       fs = [InitFs([id \in StoreIds |-> IF id = IdA THEN a ELSE b], live)
               EXCEPT ![ActiveProfilePath] = ptr]
  /\ proc = [p \in Procs |-> IdleLocal]
  /\ callers = {"A"}
  /\ faults = MaxFaults
  /\ calls = MaxCalls
  /\ clock = Epoch + 1
  /\ minted = {}
  /\ merge = MergeCall(JObj(EmptyMap), JObj(EmptyMap))
  /\ built = BuildCall(NoPayload)

NextDefault ==
  \E p \in Procs :
    \/ CreateDefaultProfile(p)
    \/ AwOpen(p)
    \/ AwWrite(p)
    \/ AwRename(p)
    \/ AwCleanup(p)
    \/ Return(p)

SpecDefault == InitDefault /\ [][NextDefault]_vars

\* settings.json as Factory, an editor or an earlier save left it
InitialSettings ==
  { NoFile, Empty, Text(<<" ", "\n">>), Corrupt,
    JsonText("jsonc", JObj(Theme)),
    JsonText("compact", JObj(EmptyMap)),
    JsonText("compact", JObj(Theme)),
    JsonText("pretty", JObj(Theme @@ "customModels" :> CustomModelsValue(<<Sonnet>>))),
    JsonText("compact", JObj("customModels" :> JStr("none") @@ "hooks" :> JObj(Theme))),
    JsonText("compact", JArr(<<JStr("x")>>)) }

InitFactory ==
  /\ family = "factory"
  /\ \E b \in InitialSettings :
       fs = [path \in FactoryPaths |-> IF path = FactorySettingsPath THEN b ELSE NoFile]
  /\ proc = [p \in Procs |-> IdleLocal]
  /\ callers = {"A"}
  /\ faults = MaxFaults
  /\ calls = MaxCalls
  /\ clock = Epoch
  /\ minted = {}
  /\ merge = MergeCall(JObj(EmptyMap), JObj(EmptyMap))
  /\ built = BuildCall(NoPayload)

NextFactory ==
  \E p \in Procs :
    \/ \E models \in ModelLists : SaveCustomModels(p, models)
    \/ AwOpen(p)
    \/ AwWrite(p)
    \/ AwRename(p)
    \/ AwCleanup(p)
    \/ Return(p)

SpecFactory == InitFactory /\ [][NextFactory]_vars

\* the live files a first projection may find.  OpenCode: opencode.json is
\* absent, of no bytes, the empty document or as the external tool wrote it,
\* and each of opencode.jsonc, auth.json, auth.jsonc is absent or as the tool
\* wrote it, a .jsonc file with comments and another key than the .json.
\* OpenClaw: openclaw.json is one of the four
InitialLivePaths(fam) ==
  LET config == { NoFile, Empty, JsonText("compact", JObj(EmptyMap)),
                  JsonText("compact", JObj(Theme)) }
      commented == { NoFile, JsonText("jsonc", JObj("font" :> JStr("mono"))) }
  IN IF fam = "openclaw"
     THEN { [path \in LivePaths |-> IF path = OpenClawConfigPath THEN c ELSE NoFile] :
            c \in config }
     ELSE { [path \in LivePaths |->
               CASE path = <<OpenCodeConfigDir, "opencode", "json">> -> c
                 [] path = <<OpenCodeConfigDir, "opencode", "jsonc">> -> cc
                 [] path = <<OpenCodeAuthDir, "auth", "json">> -> a
                 [] path = <<OpenCodeAuthDir, "auth", "jsonc">> -> ac
                 [] OTHER -> NoFile] :
            c \in config, cc \in commented,
            a \in {NoFile, JsonText("compact", JObj(Theme))}, ac \in commented }

\* OpenCode or OpenClaw, one caller; the store holds under IdA the family's
\* main profile and under IdB one whose payload is the provider acme alone
InitPaths ==
  /\ family \in {"opencode", "openclaw"}
  /\ \E live \in InitialLivePaths(family) :
       fs = InitFs([id \in StoreIds |->
                      IF id = IdA THEN ProfileText(MakeProfile(IdA, MainPayload(family)))
                      ELSE ProfileText(MakeProfile(IdB, AcmeAlone(family)))],
                   live)
  /\ proc = [p \in Procs |-> IdleLocal]
  /\ callers = {"A"}
  /\ faults = MaxFaults
  /\ calls = MaxCalls
  /\ clock = Epoch
  /\ minted = {}
  /\ merge = MergeCall(JObj(EmptyMap), JObj(EmptyMap))
  /\ built = BuildCall(NoPayload)

\* the steps of an OpenCode or OpenClaw apply
NextPaths ==
  \E p \in Procs :
    \/ \E id \in ArgIds : Apply(p, id)
    \/ OpenCodeReadConfig(p)
    \/ OpenCodeReadAuth(p)
    \/ OpenClawReadConfig(p)
    \/ AwOpen(p)
    \/ AwWrite(p)
    \/ AwRename(p)
    \/ AwCleanup(p)
    \/ Return(p)

SpecPaths == InitPaths /\ [][NextPaths]_vars

\* the documents deep_merge_json is called on: maps one to three levels
\* deep, sequences and a number, alone and as the values of shared keys
JsonDocs ==
  LET x1 == JObj("x" :> JNum(1))
      y2 == JObj("y" :> JNum(2))
  IN { JObj("a" :> JNum(1) @@ "b" :> x1),
       JObj("b" :> y2 @@ "c" :> JNum(3)),
       JObj("a" :> JArr(<<JNum(1), JNum(2)>>)),
       JObj("a" :> JArr(<<JNum(3)>>)),
       JObj(EmptyMap),
       JNum(1),
       JArr(<<JNum(1)>>),
       JObj("a" :> JObj("b" :> x1)),
       JObj("a" :> JObj("b" :> y2 @@ "c" :> JNum(3)) @@ "b" :> JNum(2)),
       JObj("b" :> JObj("x" :> JArr(<<JNum(1)>>))) }

InitMerge ==
  /\ family = "openclaw"
  /\ fs = [path \in AllPaths |-> NoFile]
  /\ proc = [p \in Procs |-> IdleLocal]
  /\ callers = {}
  /\ faults = 0
  /\ calls = 0
  /\ clock = Epoch
  /\ minted = {}
  /\ \E b \in JsonDocs, o \in JsonDocs : merge = MergeCall(b, o)
  /\ built = BuildCall(NoPayload)

\* deep_merge_json(&mut base, &overlay) runs: base is replaced by the merge
DeepMerge ==
  /\ merge.out = None
  /\ merge' = [merge EXCEPT !.out = Some(DeepMergeJson(merge.base, merge.overlay))]
  /\ UNCHANGED <<family, fs, proc, callers, faults, calls, clock, minted, built>>

\* deep_merge_json(&mut base, &overlay) runs once more on the merged base
DeepMergeAgain ==
  /\ IsSome(merge.out)
  /\ merge.again = None
  /\ merge' = [merge EXCEPT !.again = Some(DeepMergeJson(Unwrap(merge.out), merge.overlay))]
  /\ UNCHANGED <<family, fs, proc, callers, faults, calls, clock, minted, built>>

NextMerge == DeepMerge \/ DeepMergeAgain

SpecMerge == InitMerge /\ [][NextMerge]_vars

(***************************************************************************)
(* build_openclaw_config on its own.  profile.providers is a HashMap: the  *)
(* two loops over it visit the providers in an order the map chooses.      *)
(***************************************************************************)
\* the orders a HashMap with the keys S may be iterated in
Orders(S) ==
  { ord \in [1..Cardinality(S) -> S] : \A i, j \in DOMAIN ord : i # j => ord[i] # ord[j] }

\* an all_model_refs that leaves the provider id out
RECURSIVE ModelRefsBare(_, _)
ModelRefsBare(profile, ord) ==
  IF ord = <<>> THEN <<>>
  ELSE [i \in 1..Len(profile.providers[Head(ord)].models) |->
          profile.providers[Head(ord)].models[i].id]
         \o ModelRefsBare(profile, Tail(ord))

\* all_model_refs: format!("{provider_id}/{}", model.id) pushed for every
\* model of every provider, the providers visited in the order ord
RECURSIVE ModelRefsIn(_, _)
ModelRefsIn(profile, ord) ==
  IF ord = <<>> THEN <<>>
  ELSE [i \in 1..Len(profile.providers[Head(ord)].models) |->
          Head(ord) \o "/" \o profile.providers[Head(ord)].models[i].id]
         \o ModelRefsIn(profile, Tail(ord))

\* models_map: an empty object inserted under every ref, first to last
RECURSIVE ModelsMapOf(_)
ModelsMapOf(refs) ==
  IF refs = <<>> THEN EmptyMap
  ELSE Insert(ModelsMapOf(SubSeq(refs, 1, Len(refs) - 1)), refs[Len(refs)], JObj(EmptyMap))

\* providers: the object of every provider inserted under its id, first to last
RECURSIVE ProvidersMapOf(_, _)
ProvidersMapOf(profile, ord) ==
  IF ord = <<>> THEN EmptyMap
  ELSE Insert(ProvidersMapOf(profile, SubSeq(ord, 1, Len(ord) - 1)), ord[Len(ord)],
              OpenClawProviderValue(profile.providers[ord[Len(ord)]]))

\* build_openclaw_config, its loops over profile.providers run in the orders
\* ord1 and ord2
BuildOpenClawConfigIn(profile, ord1, ord2) ==
  LET refs == ModelRefsIn(profile, ord1)
      model == IF IsSome(profile.defaultModel)
               THEN Some(JObj("primary" :> JStr(Unwrap(profile.defaultModel))))
               ELSE None
      models == IF refs # <<>> THEN Some(JObj(ModelsMapOf(refs))) ELSE None
      agents == JObj("defaults" :> ObjectOf({<<"model", model>>, <<"models", models>>}))
      custom == JObj("mode" :> JStr("merge")
                       @@ "providers" :> JObj(ProvidersMapOf(profile, ord2)))
  IN ObjectOf({ <<"agents", IF IsSome(profile.defaultModel) \/ refs # <<>>
                            THEN Some(agents) ELSE None>>,
                <<"models", IF DOMAIN profile.providers # {}
                            THEN Some(custom) ELSE None>> })

ModelM2 ==
  [id |-> "m2", name |-> Some("Two"), reasoning |-> TRUE, input |-> <<"text", "image">>,
   contextWindow |-> Some(8), maxTokens |-> Some(4)]

\* the provider entries of the profiles build_openclaw_config is called on:
\* with no model, one, two, and the same model id twice
OpenClawProviderConfigs ==
  { [baseUrl |-> Some("https://x"), apiKey |-> Some("k1"), api |-> None, models |-> <<>>],
    [baseUrl |-> Some("https://x"), apiKey |-> Some("k1"), api |-> None, models |-> <<ModelM1>>],
    [baseUrl |-> None, apiKey |-> None, api |-> Some("openai"), models |-> <<ModelM1, ModelM2>>],
    [baseUrl |-> Some("https://y"), apiKey |-> None, api |-> None, models |-> <<ModelM2>>],
    [baseUrl |-> None, apiKey |-> None, api |-> None, models |-> <<ModelM1, ModelM1>>] }

\* the payloads build_openclaw_config is called on: no, one or two providers,
\* a default model or none
OpenClawProfiles ==
  { [NoPayload EXCEPT !.defaultModel = d, !.providers = pr] :
      d \in {None, Some("acme/m1")},
      pr \in UNION { [ids -> OpenClawProviderConfigs] : ids \in SUBSET {"acme", "zeta"} } }

InitBuild ==
  /\ family = "openclaw"
  /\ fs = [path \in AllPaths |-> NoFile]
  /\ proc = [p \in Procs |-> IdleLocal]
  /\ callers = {}
  /\ faults = 0
  /\ calls = 0
  /\ clock = Epoch
  /\ minted = {}
  /\ merge = MergeCall(JObj(EmptyMap), JObj(EmptyMap))
  /\ \E profile \in OpenClawProfiles : built = BuildCall(profile)

\* build_openclaw_config(&profile) runs
Build ==
  /\ built.out = None
  /\ \E ord1, ord2 \in Orders(DOMAIN built.profile.providers) :
       built' = [built EXCEPT !.out = Some(BuildOpenClawConfigIn(built.profile, ord1, ord2))]
  /\ UNCHANGED <<family, fs, proc, callers, faults, calls, clock, minted, merge>>

SpecBuild == InitBuild /\ [][Build]_vars

(***************************************************************************)
(* Properties.  A command has returned when its caller is at "done"; the   *)
(* history fields of the caller tell what the command did.                 *)
(***************************************************************************)
ApplyReturned(p) == proc[p].pc = "done" /\ proc[p].op = "apply"

DeleteReturned(p) == proc[p].pc = "done" /\ proc[p].op = "delete"

\* the call sites that write a live file, rollbacks included
LiveWriteSites == {"cx_auth", "cx_cfg", "cx_rb_auth", "cx_rb_cfg", "oc_cfg", "oc_auth", "cl_cfg"}

\* C1: when the Codex apply's write of config.toml fails, the apply returns an
\* error and auth.json holds exactly the content it had before the apply (or
\* is absent if it was absent).
C1_AuthRestored ==
  \A p \in Procs :
    (family = "codex" /\ ApplyReturned(p) /\ proc[p].failed = "cx_cfg")
      => /\ proc[p].result = "err"
         /\ fs[CodexAuthPath] = proc[p].pre[CodexAuthPath]

\* C2: in every family, an apply that returns an error that arose while it
\* wrote the live files leaves every live file as it was before the apply.
C2_AllOrNothing ==
  \A p \in Procs :
    (ApplyReturned(p) /\ proc[p].result = "err" /\ proc[p].failed \in LiveWriteSites)
      => \A path \in LivePaths : fs[path] = proc[p].pre[path]

\* C3: a top-level key the profile does not define ("theme": "dark") that a
\* live JSON file held before a successful apply is in that file, with the
\* same value, after it.
C3_ForeignKeysKept ==
  \A p \in Procs :
    (ApplyReturned(p) /\ proc[p].result = "ok")
      => \A path \in (proc[p].renamed \cap LivePaths) \ {CodexConfigPath} :
           LET before == ReadJsonFileValue(proc[p].pre[path])
               after == ReadJsonFileValue(fs[path])
           IN (IsObj(before) /\ "theme" \in Keys(before))
                => /\ IsObj(after)
                   /\ "theme" \in Keys(after)
                   /\ after[2]["theme"] = before[2]["theme"]

\* C4: an apply has written the pointer only once every live file of the
\* call is committed and, having written it, returns success; an apply that
\* returns an error from loading, validating, reading, merging or writing
\* has not written the pointer.
C4_PointerLast ==
  \A p \in Procs :
    (proc[p].op = "apply" /\ ActiveProfilePath \in proc[p].renamed)
      => /\ LiveTargets(family, proc[p].pre) \subseteq proc[p].renamed
         /\ proc[p].pc = "done"
         /\ proc[p].result = "ok"

C4_Witness ==
  \E p \in Procs :
    /\ ApplyReturned(p)
    /\ ActiveProfilePath \in proc[p].renamed
    /\ fs[ActiveProfilePath] = Text(proc[p].id)
    /\ LiveTargets(family, proc[p].pre) \subseteq proc[p].renamed

\* C5: an apply that returns an error from loading the profile, validating
\* it or reading the live files, that is before its first live write, has
\* changed no live file and not the pointer.
C5_NoEffectBeforeFirstWrite ==
  \A p \in Procs :
    (ApplyReturned(p) /\ proc[p].result = "err" /\ proc[p].err \in {"load", "validate", "read"})
      => \A path \in LivePaths \cup {ActiveProfilePath} : fs[path] = proc[p].pre[path]

C5_Witness ==
  \E p \in Procs :
    /\ ApplyReturned(p)
    /\ proc[p].result = "err"
    /\ proc[p].err = "read"
    /\ proc[p].renamed = {}
    /\ \E path \in LivePaths : fs[path] # NoFile

\* C6: a Codex apply of a profile whose config text is not valid TOML returns
\* the validation error at once, with auth.json, config.toml and every other
\* file as before; a config text that is empty or all whitespace is not
\* rejected by the validation.
C6_InvalidTomlRejected ==
  \A p \in Procs :
    (family = "codex" /\ proc[p].op = "apply" /\ IsSome(proc[p].prof))
      => LET toml == Unwrap(proc[p].prof).configToml IN
         /\ toml \in MalformedToml
              => /\ proc[p].pc = "done"
                 /\ proc[p].result = "err"
                 /\ proc[p].err = "validate"
                 /\ fs = proc[p].pre
         /\ (\A i \in 1..Len(toml) : IsWhitespace(toml[i])) => proc[p].err # "validate"

C6_Witness ==
  \E p \in Procs :
    /\ family = "codex"
    /\ ApplyReturned(p)
    /\ IsSome(proc[p].prof)
    /\ Unwrap(proc[p].prof).configToml \in MalformedToml
    /\ proc[p].err = "validate"
    /\ fs[CodexAuthPath] # NoFile

\* the document of profile id exists in the store
ProfileExists(files, id) ==
  ProfilePath(id) \in DOMAIN files /\ files[ProfilePath(id)] # NoFile

\* C7: whenever no command is running, a pointer that is not none names a
\* profile whose document exists in the store.
C7_PointerValid ==
  (\A p \in Procs : proc[p].pc \in {"idle", "done"})
    => (IsSome(GetActiveProfileId(fs)) => ProfileExists(fs, Unwrap(GetActiveProfileId(fs))))

\* C8: when delete(id) has returned and id was the active profile when it
\* began, the pointer reads none.
C8_DeleteClearsPointer ==
  \A p \in Procs :
    (DeleteReturned(p) /\ proc[p].result = "ok"
       /\ GetActiveProfileId(proc[p].pre) = Some(proc[p].id))
      => GetActiveProfileId(fs) = None

\* the texts the program and the external tools write whole to target t
WholeTexts(t) ==
  IF t = ActiveProfilePath THEN ArgIds
  ELSE IF t = CodexConfigPath
       THEN WellFormedToml \cup ({pl.configToml : pl \in CodexPayloads} \ MalformedToml)
  ELSE {Corrupt[2]}

\* content b at target t is some writer's complete content
IsWhole(t, b) ==
  \/ b = NoFile
  \/ b[1] \in {"json", "prof"}
  \/ b[1] = "txt" /\ b[2] \in WholeTexts(t)

\* C9: at any moment, atomic_write calls to the same path in progress or not,
\* the file at a written path is absent or holds complete content, the old
\* or that passed to some call: never a truncated, partial or mixed one.
C9_NeverPartial == \A t \in TargetPaths : IsWhole(t, fs[t])

\* caller p's atomic_write returns an error in this step
AwFails(p) ==
  /\ proc'[p] # proc[p]
  /\ \/ proc[p].pc = "aw_open" /\ proc'[p].pc # "aw_write"
     \/ proc[p].pc = "aw_write" /\ proc'[p].pc # "aw_rename"
     \/ proc[p].pc = "aw_cleanup"

\* the content of the target when caller p's atomic_write began
TargetBefore(p) ==
  IF proc[p].pc = "aw_open" THEN fs[proc[p].awPath] ELSE proc[p].awBefore

C11_PointerFailureKeepsLive ==
  \A p \in Procs :
    (ApplyReturned(p) /\ proc[p].failed = "ptr")
      => /\ proc[p].result = "err"
         /\ \A path \in LiveTargets(family, proc[p].pre) : <<path, fs[path]>> \in proc[p].committed
         /\ fs[ActiveProfilePath] = proc[p].pre[ActiveProfilePath]

C11_Witness ==
  \E p \in Procs :
    /\ ApplyReturned(p)
    /\ proc[p].failed = "ptr"
    /\ proc[p].id = IdB
    /\ fs[ActiveProfilePath] = Text(IdA)
    /\ \E path \in LiveTargets(family, proc[p].pre) : fs[path] # proc[p].pre[path]

\* C12: when an apply(id) of a sole caller has returned success, the pointer
\* reads id, whatever the pointer file held before the apply.
C12_PointerIsApplied ==
  \A p \in Procs :
    (ApplyReturned(p) /\ proc[p].result = "ok") => GetActiveProfileId(fs) = Some(proc[p].id)

\* an earlier apply wrote the live files and failed to record its id
C12_Witness ==
  \E p \in Procs :
    /\ ApplyReturned(p)
    /\ proc[p].result = "ok"
    /\ fs[ActiveProfilePath] = Text(proc[p].id)
    /\ proc[p].pre[ActiveProfilePath] = NoFile
    /\ \E path \in LiveTargets(family, proc[p].pre) :
         proc[p].pre[path] # NoFile /\ proc[p].pre[path][1] = "json"
           /\ proc[p].pre[path][2] = "pretty"

\* C13: when two overlapping applies have both returned success, every file
\* holds the bytes passed by the call that renamed onto it last.
C13_LastRenamerWins ==
  (\A p \in Procs : ApplyReturned(p) /\ proc[p].result = "ok")
    => \A path \in LivePaths \cup {ActiveProfilePath} :
         \A p \in Procs : path \in proc[p].last => <<path, fs[path]>> \in proc[p].committed

\* a final state whose live file comes from one call and whose other live
\* file, or pointer, comes from the other call
C13_Witness ==
  \E p, q \in Procs :
    /\ p # q
    /\ \A r \in Procs : ApplyReturned(r) /\ proc[r].result = "ok"
    /\ proc[p].id # proc[q].id
    /\ \E path \in LiveTargets(family, proc[p].pre) : path \in proc[p].last
    /\ \E path \in LiveTargets(family, proc[q].pre) \cup {ActiveProfilePath} :
         /\ path \in proc[q].last
         /\ <<path, fs[path]>> \notin proc[p].committed

SaveReturned(p) == proc[p].pc = "done" /\ proc[p].op = "save"

\* what get(id) returns in the present state when its read succeeds
GetNow(id) == LoadProfileById(family, fs, id)

\* a record with its timestamps blanked
SansTimes(r) == [r EXCEPT !.createdAt = Blank, !.updatedAt = Blank]

StoredBefore(p) ==
  LET P == Unwrap(proc[p].arg) IN
  IF proc[p].failed = "save_read" THEN None ELSE LoadProfileById(family, proc[p].pre, P.id)

C15_CreatedAtKept ==
  \A p \in Procs :
    (SaveReturned(p) /\ proc[p].result = "ok" /\ IsSome(StoredBefore(p)))
      => /\ IsSome(GetNow(proc[p].id))
         /\ Unwrap(GetNow(proc[p].id)).createdAt
              = Unwrap(LoadProfileById(family, proc[p].pre, proc[p].id)).createdAt
         /\ Unwrap(GetNow(proc[p].id)).updatedAt = clock

\* C16: in every family, a successful save of a profile with an empty id
\* stores it under a new, non-empty id no document was stored under, with
\* that id and a createdAt set in it, and changes no other profile document.
C16_EmptyIdGetsFreshId ==
  \A p \in Procs :
    (SaveReturned(p) /\ proc[p].result = "ok" /\ Unwrap(proc[p].arg).id = <<>>)
      => \E id \in PathIds \ {<<>>} :
           /\ proc[p].pre[ProfilePath(id)] = NoFile
           /\ IsSome(ParseProfile(fs[ProfilePath(id)]))
           /\ Unwrap(ParseProfile(fs[ProfilePath(id)])).id = id
           /\ Unwrap(ParseProfile(fs[ProfilePath(id)])).createdAt # Blank
           /\ \A other \in PathIds \ {id} : fs[ProfilePath(other)] = proc[p].pre[ProfilePath(other)]

\* C17: in every family, a get, save, delete, duplicate or apply whose id is
\* not empty and holds a character other than ASCII letters, digits, hyphen
\* and underscore returns an error and leaves every file as it was.
C17_InvalidIdTouchesNothing ==
  \A p \in Procs :
    (proc[p].pc = "done" /\ proc[p].id # <<>> /\ ~ValidateProfileId(proc[p].id))
      => /\ proc[p].result = "err"
         /\ fs = proc[p].pre

\* C18: in every family a delete(id) with a valid id returns success, stored
\* document or not; and a delete(id) that finds no document under id, as the
\* second of two in a row does, changes nothing.
C18_DeleteIdempotent ==
  \A p \in Procs :
    (DeleteReturned(p) /\ ValidateProfileId(proc[p].id))
      => /\ proc[p].result = "ok"
         /\ proc[p].pre[ProfilePath(proc[p].id)] = NoFile => fs = proc[p].pre

GetReturned(p) == proc[p].pc = "done" /\ proc[p].op = "get"

DuplicateReturned(p) == proc[p].pc = "done" /\ proc[p].op = "duplicate"

\* a record with its identity and timestamps blanked: the payload
PayloadOf(r) == [SansTimes(r) EXCEPT !.id = <<>>, !.name = ""]

\* C20: a successful duplicate(id, newName) has stored a profile under an id
\* that differs from id and held no document, named newName, with createdAt
\* and updatedAt equal and the current time, and with the source's payload,
\* and left the source document as it was; a duplicate of an id with no
\* document returns an error and writes nothing.
C20_DuplicateIsFreshCopy ==
  \A p \in Procs :
    DuplicateReturned(p)
      => /\ proc[p].result = "ok"
              => LET new == Unwrap(proc[p].ret).id
                     stored == GetNow(new)
                     source == LoadProfileById(family, proc[p].pre, proc[p].id)
                 IN /\ new # proc[p].id
                    /\ proc[p].pre[ProfilePath(new)] = NoFile
                    /\ IsSome(stored)
                    /\ Unwrap(stored).id = new
                    /\ Unwrap(stored).name \in NewNames
                    /\ Unwrap(stored).createdAt = Unwrap(stored).updatedAt
                    /\ Unwrap(stored).updatedAt = clock
                    /\ PayloadOf(Unwrap(stored)) = PayloadOf(Unwrap(source))
                    /\ fs[ProfilePath(proc[p].id)] = proc[p].pre[ProfilePath(proc[p].id)]
         /\ proc[p].pre[ProfilePath(proc[p].id)] = NoFile
              => (proc[p].result = "err" /\ fs = proc[p].pre)

ListReturned(p) == proc[p].pc = "done" /\ proc[p].op = "list"

\* the .json documents of the profile directory that parse, as list found them
ParsableBefore(p) ==
  { path \in JsonEntries(proc[p].pre) : IsSome(ParseProfile(proc[p].pre[path])) }

\* C21: a list that could read the directory returns success, and every
\* record it returns is the profile of a .json document of the directory
\* that parses, no document giving more than one record; when it could read
\* every document it returns the profile of each that parses; a document
\* that does not parse is skipped and never the cause of an error.
C21_ListSkipsCorrupt ==
  \A p \in Procs :
    ListReturned(p)
      => /\ proc[p].failed # "read_dir" => proc[p].result = "ok"
         /\ proc[p].result = "ok"
              => LET v == Unwrap(proc[p].ret)
                     docs(r) == { path \in ParsableBefore(p) :
                                    Unwrap(ParseProfile(proc[p].pre[path])) = r }
                     at(r) == { i \in 1..Len(v) : v[i] = r }
                 IN /\ \A i \in 1..Len(v) : Cardinality(at(v[i])) <= Cardinality(docs(v[i]))
                    /\ proc[p].failed = "none"
                         => \A path \in ParsableBefore(p) :
                              LET r == Unwrap(ParseProfile(proc[p].pre[path]))
                              IN Cardinality(at(r)) = Cardinality(docs(r))
         /\ fs = proc[p].pre

\* a list over a corrupt document and a profile returns the profile
C21_Witness ==
  \E p \in Procs :
    /\ ListReturned(p)
    /\ proc[p].result = "ok"
    /\ proc[p].failed = "none"
    /\ fs[ProfilePath(IdA)] = Corrupt
    /\ Len(Unwrap(proc[p].ret)) = 1

\* C22: in every family the names of the sequence list returns are in
\* order when compared without regard to case ("alpha" before "Beta").
C22_ListSortedIgnoringCase ==
  \A p \in Procs :
    (ListReturned(p) /\ proc[p].result = "ok")
      => LET v == Unwrap(proc[p].ret)
         IN \A i, j \in 1..Len(v) :
              i < j => StrLeq(ToLowercase(Chars(v[i].name)), ToLowercase(Chars(v[j].name)))

\* m is b merged with o as C23 has it: the keys of both, a key of one alone
\* with its value, a key of both whose values are maps merged the same way
RECURSIVE MergedAsMaps(_, _, _)
MergedAsMaps(b, o, m) ==
  (IsObj(b) /\ IsObj(o))
    => /\ IsObj(m)
       /\ Keys(m) = Keys(b) \cup Keys(o)
       /\ \A k \in Keys(m) :
            /\ k \notin Keys(o) => m[2][k] = b[2][k]
            /\ k \notin Keys(b) => m[2][k] = o[2][k]
            /\ k \in Keys(b) \cap Keys(o) => MergedAsMaps(b[2][k], o[2][k], m[2][k])

\* C23: deep_merge_json on two maps gives a map with the keys of both, a
\* key of the base alone with its base value, a key of the overlay alone
\* with its overlay value, a key of both whose values are both maps merged
\* by the same rule; {a:1,b:{x:1}} with {b:{y:2},c:3} gives
\* {a:1,b:{x:1,y:2},c:3}.
C23_MapsMergeByKey ==
  IsSome(merge.out)
    => /\ MergedAsMaps(merge.base, merge.overlay, Unwrap(merge.out))
       /\ (/\ merge.base = JObj("a" :> JNum(1) @@ "b" :> JObj("x" :> JNum(1)))
           /\ merge.overlay = JObj("b" :> JObj("y" :> JNum(2)) @@ "c" :> JNum(3)))
            => Unwrap(merge.out)
                 = JObj("a" :> JNum(1) @@ "b" :> JObj("x" :> JNum(1) @@ "y" :> JNum(2))
                          @@ "c" :> JNum(3))

C23_Witness ==
  /\ IsSome(merge.out)
  /\ merge.base = JObj("a" :> JNum(1) @@ "b" :> JObj("x" :> JNum(1)))
  /\ merge.overlay = JObj("b" :> JObj("y" :> JNum(2)) @@ "c" :> JNum(3))
  /\ Keys(Unwrap(merge.out)) = {"a", "b", "c"}
  /\ Keys(Unwrap(merge.out)[2]["b"]) = {"x", "y"}

\* m holds o's value wherever b and o are not both maps
RECURSIVE OverlayReplaces(_, _, _)
OverlayReplaces(b, o, m) ==
  IF IsObj(b) /\ IsObj(o)
  THEN /\ IsObj(m)
       /\ \A k \in Keys(b) \cap Keys(o) :
            k \in Keys(m) /\ OverlayReplaces(b[2][k], o[2][k], m[2][k])
  ELSE m = o

\* C24: wherever the base value and the overlay value are not both maps,
\* deep_merge_json leaves exactly the overlay value; a sequence is replaced
\* whole: {a:[1,2]} with {a:[3]} gives {a:[3]}.
C24_OverlayReplacesNonMaps ==
  IsSome(merge.out)
    => /\ OverlayReplaces(merge.base, merge.overlay, Unwrap(merge.out))
       /\ (/\ merge.base = JObj("a" :> JArr(<<JNum(1), JNum(2)>>))
           /\ merge.overlay = JObj("a" :> JArr(<<JNum(3)>>)))
            => Unwrap(merge.out) = JObj("a" :> JArr(<<JNum(3)>>))

C24_Witness ==
  /\ IsSome(merge.out)
  /\ merge.base = JObj("a" :> JArr(<<JNum(1), JNum(2)>>))
  /\ merge.overlay = JObj("a" :> JArr(<<JNum(3)>>))
  /\ Unwrap(merge.out)[2]["a"][2] = <<JNum(3)>>

\* the document an apply of profile r writes to live file path when it reads
\* the empty document there
WrittenOverEmpty(fam, path, r) ==
  CASE fam = "openclaw" -> OpenClawMerged(JObj(EmptyMap), r)
    [] fam = "opencode" /\ path[1] = OpenCodeConfigDir -> MergeOpenCodeProviders(JObj(EmptyMap), r)
    [] fam = "opencode" /\ path[1] = OpenCodeAuthDir -> MergeOpenCodeAuth(JObj(EmptyMap), r)

\* C25: an apply none of whose I/O calls failed returns no error from
\* reading a live JSON document, absent or not parsable as it may be; it
\* reads such a document as the empty one, so that the file then holds the
\* profile's projection alone.
C25_UnparsableLiveReadsEmpty ==
  \A p \in Procs :
    (ApplyReturned(p) /\ faults = MaxFaults /\ IsSome(proc[p].prof))
      => /\ proc[p].err # "read"
         /\ (family # "codex" /\ proc[p].result = "ok")
              => \A path \in LiveTargets(family, proc[p].pre) :
                   (proc[p].pre[path] = NoFile \/ ~FromStrStripped(proc[p].pre[path])[1])
                     => fs[path] = ToStringPretty(WrittenOverEmpty(family, path, Unwrap(proc[p].prof)))

\* C26: an OpenCode apply resolves, for the config file and for the auth
\* file, the .jsonc path when that file exists and the .json path otherwise;
\* what it writes it writes to the resolved path, from the document read
\* there, and it leaves the other path as it was: the .json file unchanged,
\* or no .jsonc file created.
C26_JsoncPreferred ==
  \A p \in Procs :
    (family = "opencode" /\ ApplyReturned(p))
      => \A base \in {<<OpenCodeConfigDir, "opencode">>, <<OpenCodeAuthDir, "auth">>} :
           LET jsonc == <<base[1], base[2], "jsonc">>
               json == <<base[1], base[2], "json">>
               resolved == IF proc[p].pre[jsonc] # NoFile THEN jsonc ELSE json
               other == IF resolved = jsonc THEN json ELSE jsonc
               read == ReadJsonFileValue(proc[p].pre[resolved])
               r == Unwrap(proc[p].prof)
           IN /\ other \notin proc[p].renamed
              /\ fs[other] = proc[p].pre[other]
              /\ proc[p].result = "ok" => resolved \in proc[p].renamed
              /\ (proc[p].result = "ok" /\ faults = MaxFaults)
                   => fs[resolved] = ToStringPretty(IF base[1] = OpenCodeConfigDir
                                                    THEN MergeOpenCodeProviders(read, r)
                                                    ELSE MergeOpenCodeAuth(read, r))

\* an apply over auth.json and auth.jsonc, and over opencode.json alone
C26_Witness ==
  \E p \in Procs :
    /\ family = "opencode"
    /\ ApplyReturned(p)
    /\ proc[p].result = "ok"
    /\ proc[p].pre[<<OpenCodeAuthDir, "auth", "jsonc">>] # NoFile
    /\ proc[p].pre[<<OpenCodeAuthDir, "auth", "json">>] # NoFile
    /\ fs[<<OpenCodeAuthDir, "auth", "jsonc">>] # proc[p].pre[<<OpenCodeAuthDir, "auth", "jsonc">>]
    /\ proc[p].pre[<<OpenCodeConfigDir, "opencode", "jsonc">>] = NoFile
    /\ proc[p].pre[<<OpenCodeConfigDir, "opencode", "json">>] # NoFile
    /\ fs[<<OpenCodeConfigDir, "opencode", "json">>] # proc[p].pre[<<OpenCodeConfigDir, "opencode", "json">>]
    /\ fs[<<OpenCodeConfigDir, "opencode", "jsonc">>] = NoFile

\* C27: an OpenCode apply reads a live file with comments as it reads the
\* file with the comments removed; no text it writes holds a comment; and
\* once it has returned success, every key the document held before is in
\* the file with its value, the comments gone.
C27_CommentsReadNotWritten ==
  \A p \in Procs :
    (family = "opencode" /\ ApplyReturned(p))
      => /\ \A path \in LiveTargets(family, proc[p].pre) :
              ReadJsonFileValue(proc[p].pre[path])
                = ReadJsonFileValue(StripComments(proc[p].pre[path]))
         /\ \A c \in proc[p].committed :
              c[1] \in LivePaths => (c[2][1] = "json" /\ c[2][2] # "jsonc")
         /\ proc[p].result = "ok"
              => \A path \in LiveTargets(family, proc[p].pre) :
                   LET before == ReadJsonFileValue(proc[p].pre[path])
                       after == ReadJsonFileValue(fs[path])
                   IN /\ fs[path][2] # "jsonc"
                      /\ IsObj(before)
                           => /\ IsObj(after)
                              /\ \A k \in Keys(before) :
                                   k \in Keys(after) /\ after[2][k] = before[2][k]

\* the live config file an apply of the family finds
ConfigBefore(p) ==
  IF family = "openclaw" THEN OpenClawConfigPath ELSE GetOpenCodeConfigPath(proc[p].pre)

\* C28: an OpenCode or OpenClaw apply, none of whose I/O calls fails, of a
\* profile whose providers are acme {baseUrl, apiKey} alone, over a live
\* config that is absent, of no bytes or the empty document, returns
\* success; the config then holds that provider entry and no other under the
\* adapter's wrapper ("provider"; "models" with mode "merge" and
\* "providers") and nothing else, and the pointer file holds the profile's id.
C28_FirstProjection ==
  \A p \in Procs :
    (/\ ApplyReturned(p)
     /\ faults = MaxFaults
     /\ IsSome(proc[p].prof)
     /\ PayloadOf(Unwrap(proc[p].prof)) = PayloadOf(MakeProfile(<<>>, AcmeAlone(family)))
     /\ proc[p].pre[ConfigBefore(p)] \in {NoFile, Empty, JsonText("compact", JObj(EmptyMap))})
      => LET acme == "baseUrl" :> JStr("https://x") @@ "apiKey" :> JStr("k1")
             expected ==
               IF family = "openclaw"
               THEN JObj("models" :> JObj("mode" :> JStr("merge")
                                            @@ "providers" :> JObj("acme" :> JObj(acme))))
               ELSE JObj("provider" :> JObj("acme" :> JObj("options" :> JObj(acme))))
         IN /\ proc[p].result = "ok"
            /\ FromStr(fs[ConfigBefore(p)]) = <<TRUE, expected>>
            /\ fs[ActiveProfilePath] = Text(proc[p].id)

\* C29: a read of the active pointer whose I/O succeeds answers none when
\* the pointer file is absent or holds white space alone (no character
\* included), and else the text of the file between its leading and trailing
\* white space; it never answers an empty id.
C29_PointerReadTrims ==
  \A p \in Procs :
    (proc[p].pc = "done" /\ proc[p].op = "get_active")
      => LET b == proc[p].pre[ActiveProfilePath]
             blank == b = NoFile \/ \A i \in 1..Len(b[2]) : IsWhitespace(b[2][i])
         IN /\ faults = MaxFaults => proc[p].result = "ok"
            /\ proc[p].result = "ok"
                 => /\ blank <=> proc[p].ret = None
                    /\ proc[p].ret # Some(<<>>)
                    /\ ~blank
                         => \E i, j \in 1..Len(b[2]) :
                              /\ proc[p].ret = Some(SubSeq(b[2], i, j))
                              /\ ~IsWhitespace(b[2][i]) /\ ~IsWhitespace(b[2][j])
                              /\ \A k \in 1..Len(b[2]) :
                                   (k < i \/ k > j) => IsWhitespace(b[2][k])
            /\ fs = proc[p].pre

\* the pointer file holds an id between white space: the id is answered
C29_Witness ==
  \E p \in Procs :
    /\ proc[p].pc = "done"
    /\ proc[p].op = "get_active"
    /\ proc[p].pre[ActiveProfilePath] = Text(<<" ">> \o IdA \o <<"\n">>)
    /\ proc[p].ret = Some(IdA)

\* C30: when an apply has returned, with success or an error, every file of
\* the profile directory is as it was when the apply began, and the paths
\* the apply renamed onto are live config files and the pointer file.
C30_ApplyKeepsStore ==
  \A p \in Procs :
    ApplyReturned(p)
      => /\ \A path \in ProfilePaths :
              /\ fs[path] = proc[p].pre[path]
              /\ fs[WithExtension(path, "tmp")] = proc[p].pre[WithExtension(path, "tmp")]
         /\ proc[p].renamed \subseteq LivePaths \cup {ActiveProfilePath}

\* an apply that wrote a live file and failed, the profile it read in place
C30_Witness ==
  \E p \in Procs :
    /\ ApplyReturned(p)
    /\ proc[p].result = "err"
    /\ proc[p].renamed # {}
    /\ IsSome(proc[p].prof)
    /\ fs[ProfilePath(proc[p].id)] = ProfileText(Unwrap(proc[p].prof))

\* caller p's command returns in this step
Returns(p) == proc[p].pc # "done" /\ proc'[p].pc = "done"

\* C31: at the step an apply returns, with success or an error, its rollback
\* and overlapping applies included, every live config file that existed
\* when it began, or that another apply which has returned success created
\* meanwhile, exists.
C31_LiveFileNeverRemoved ==
  [][\A p \in Procs :
       (Returns(p) /\ proc'[p].op = "apply")
         => \A path \in LivePaths :
              (\/ proc'[p].pre[path] # NoFile
               \/ \E q \in Procs \ {p} :
                    /\ ApplyReturned(q) /\ proc[q].result = "ok"
                    /\ path \in proc[q].renamed
                    /\ proc[q].pre[path] = NoFile)
                => fs'[path] # NoFile]_vars

\* the positions of an apply at which its next step reads a live file
LiveReadPcs == {"cx_read_auth", "cx_read_cfg", "oc_read_cfg", "oc_read_auth", "cl_read"}

\* C32: an apply goes through load, validate, read live content, merge,
\* write live files, update pointer in this order and ends in success or an
\* error: while it has a live file still to read it has written no live
\* file, it has written the pointer only with its live files written, and
\* when it has returned its result is one of the two.
C32_ReadsBeforeWrites ==
  \A p \in Procs :
    proc[p].op = "apply"
      => /\ proc[p].pc \in LiveReadPcs
              => /\ proc[p].renamed = {}
                 /\ proc[p].failed = "none"
                 /\ IsSome(proc[p].prof)
         /\ ActiveProfilePath \in proc[p].renamed
              => LiveTargets(family, proc[p].pre) \subseteq proc[p].renamed
         /\ proc[p].pc = "done" => proc[p].result \in {"ok", "err"}

\* C33: build_openclaw_config returns, whatever the order its loops visit
\* the providers in, one value for a payload; in it
\* agents.defaults.model.primary is the default model when there is one,
\* the keys of agents.defaults.models are the "<providerId>/<modelId>" of
\* the models of the providers, models.mode is "merge" and the keys of
\* models.providers are the provider ids when there is a provider, and the
\* value is the empty object when there is no default model and no provider.
C33_BuildIsProjection ==
  IsSome(built.out)
    => LET P == built.profile
           c == Unwrap(built.out)
           refs == UNION { { pid \o "/" \o P.providers[pid].models[i].id :
                               i \in 1..Len(P.providers[pid].models) } :
                           pid \in DOMAIN P.providers }
           defaults == c[2]["agents"][2]["defaults"]
       IN /\ c = BuildOpenClawConfig(P)
          /\ IsObj(c)
          /\ IsSome(P.defaultModel)
               => /\ "agents" \in Keys(c)
                  /\ "model" \in Keys(defaults)
                  /\ defaults[2]["model"] = JObj("primary" :> JStr(Unwrap(P.defaultModel)))
          /\ refs # {}
               => /\ "agents" \in Keys(c)
                  /\ "models" \in Keys(defaults)
                  /\ IsObj(defaults[2]["models"])
                  /\ Keys(defaults[2]["models"]) = refs
          /\ (refs = {} /\ "agents" \in Keys(c)) => "models" \notin Keys(defaults)
          /\ DOMAIN P.providers # {}
               => /\ "models" \in Keys(c)
                  /\ c[2]["models"][2]["mode"] = JStr("merge")
                  /\ Keys(c[2]["models"][2]["providers"]) = DOMAIN P.providers
          /\ (P.defaultModel = None /\ DOMAIN P.providers = {}) => c = JObj(EmptyMap)

\* two providers, three models between them, and a default model
C33_Witness ==
  /\ IsSome(built.out)
  /\ DOMAIN built.profile.providers = {"acme", "zeta"}
  /\ IsSome(built.profile.defaultModel)
  /\ Keys(Unwrap(built.out)[2]["agents"][2]["defaults"][2]["models"])
       = {"acme/m1", "zeta/m1", "zeta/m2"}
  /\ Keys(Unwrap(built.out)[2]["models"][2]["providers"]) = {"acme", "zeta"}

\* C34: when apply(id) has returned success and the pointer file held id
\* when it began, that is when it followed a successful apply(id) of the
\* sole caller, every live config file and the pointer file are as they
\* were when it began.
C34_ApplyTwiceSame ==
  \A p \in Procs :
    (/\ ApplyReturned(p) /\ proc[p].result = "ok"
     /\ proc[p].pre[ActiveProfilePath] = Text(proc[p].id))
      => \A path \in LivePaths \cup {ActiveProfilePath} : fs[path] = proc[p].pre[path]

\* the keys of the map at the key path `at` of document v; none when there
\* is no map there
RECURSIVE KeysAt(_, _)
KeysAt(v, at) ==
  IF ~IsObj(v) THEN {}
  ELSE IF at = <<>> THEN Keys(v)
  ELSE IF Head(at) \in Keys(v) THEN KeysAt(v[2][Head(at)], Tail(at)) ELSE {}

\* the maps whose keys C35 is about: the document itself, the provider
\* entries of OpenCode and of OpenClaw, and agents.defaults.models
GrowingMaps ==
  { <<>>, <<"provider">>, <<"models", "providers">>, <<"agents", "defaults", "models">> }

\* C35: when an OpenCode or OpenClaw apply has returned success, every live
\* file it targets that held a parseable map when it began holds a map with
\* every key the file held: at the top level, among the provider entries and
\* among the keys of agents.defaults.models (so a provider entry an earlier
\* apply wrote stays when the profile now applied does not name it).
C35_LiveKeysOnlyGrow ==
  \A p \in Procs :
    (ApplyReturned(p) /\ proc[p].result = "ok" /\ family \in {"opencode", "openclaw"})
      => \A path \in LiveTargets(family, proc[p].pre) :
           LET before == FromStrStripped(proc[p].pre[path])
               after == FromStrStripped(fs[path])
           IN (before[1] /\ IsObj(before[2]))
                => /\ after[1]
                   /\ \A at \in GrowingMaps : KeysAt(before[2], at) \subseteq KeysAt(after[2], at)

\* C36: deep_merge_json run a second time with the same overlay leaves the
\* merged document as it is, merge(merge(b, o), o) = merge(b, o), for maps,
\* sequences and numbers alike; and merging the empty map into a map leaves
\* the map as it was, merge(b, {}) = b.
C36_MergeIdempotent ==
  /\ IsSome(merge.again) => merge.again = merge.out
  /\ (IsSome(merge.out) /\ IsObj(merge.base) /\ merge.overlay = JObj(EmptyMap))
       => merge.out = Some(merge.base)

\* a second merge of nested maps: the merged document stays
C36_Witness ==
  /\ IsSome(merge.again)
  /\ merge.base = JObj("a" :> JNum(1) @@ "b" :> JObj("x" :> JNum(1)))
  /\ merge.overlay = JObj("b" :> JObj("y" :> JNum(2)) @@ "c" :> JNum(3))
  /\ Unwrap(merge.again)
       = JObj("a" :> JNum(1) @@ "b" :> JObj("x" :> JNum(1) @@ "y" :> JNum(2)) @@ "c" :> JNum(3))
  /\ Unwrap(merge.again) # merge.base

\* C37: when delete(id) has returned, every live config file and every
\* profile document but that of id are as they were when it began, whether
\* id was the active profile or not; and when the pointer did not read id,
\* the pointer file is as it was.
C37_DeleteFrame ==
  \A p \in Procs :
    DeleteReturned(p)
      => /\ \A path \in LivePaths : fs[path] = proc[p].pre[path]
         /\ \A path \in ProfilePaths \ {ProfilePath(proc[p].id)} : fs[path] = proc[p].pre[path]
         /\ GetActiveProfileId(proc[p].pre) # Some(proc[p].id)
              => fs[ActiveProfilePath] = proc[p].pre[ActiveProfilePath]

\* delete(b) after apply(a): b's document is gone, a is active, a's document
\* and the live files are in place
C37_Witness ==
  \E p \in Procs :
    /\ DeleteReturned(p)
    /\ proc[p].result = "ok"
    /\ proc[p].id = IdB
    /\ proc[p].pre[ProfilePath(IdB)] # NoFile
    /\ fs[ProfilePath(IdB)] = NoFile
    /\ fs[ActiveProfilePath] = Text(IdA)
    /\ fs[ProfilePath(IdA)] # NoFile
    /\ \A path \in LiveTargets(family, fs) : fs[path] # NoFile

CreateReturned(p) == proc[p].pc = "done" /\ proc[p].op = "create_default"

\* C38: an OpenCode create_default_profile that lists a profile (as it does
\* when it can read a document that parses) returns the error "Profiles
\* already exist" and leaves every file as it was; one that lists none and
\* returns success has stored, under a new id, a profile with that id and
\* no providers and no auth, left the other documents as they were, and
\* written that id to the pointer file, so that the pointer names a stored
\* profile (with no I/O failure it returns success); no
\* create_default_profile changes a live config file.
C38_CreateDefault ==
  \A p \in Procs :
    CreateReturned(p)
      => LET new == proc[p].id
             stored == ParseProfile(fs[ProfilePath(new)])
         IN /\ (proc[p].failed = "none" /\ ParsableBefore(p) # {})
                 => (proc[p].result = "err" /\ proc[p].err = "exists")
            /\ proc[p].err = "exists"
                 => (proc[p].result = "err" /\ ParsableBefore(p) # {} /\ fs = proc[p].pre)
            /\ (ParsableBefore(p) = {} /\ faults = MaxFaults) => proc[p].result = "ok"
            /\ proc[p].result = "ok"
                 => /\ new # <<>>
                    /\ proc[p].pre[ProfilePath(new)] = NoFile
                    /\ IsSome(stored)
                    /\ Unwrap(stored).id = new
                    /\ Unwrap(stored).providers = NoProviders
                    /\ Unwrap(stored).auth = EmptyMap
                    /\ \A path \in ProfilePaths \ {ProfilePath(new)} : fs[path] = proc[p].pre[path]
                    /\ fs[ActiveProfilePath] = Text(new)
                    /\ GetActiveProfileId(fs) = Some(new)
                    /\ IsSome(GetNow(new))
            /\ \A path \in LivePaths : fs[path] = proc[p].pre[path]
            /\ proc[p].renamed \cap LivePaths = {}

\* the store held a corrupt document alone and the pointer named it: the
\* default profile is stored and active, the live files in place
C38_Witness ==
  \E p \in Procs :
    /\ CreateReturned(p)
    /\ proc[p].result = "ok"
    /\ proc[p].pre[ProfilePath(IdA)] = Corrupt
    /\ proc[p].pre[ActiveProfilePath] = Text(IdA)
    /\ fs[ActiveProfilePath] = Text(proc[p].id)
    /\ IsSome(GetNow(proc[p].id))
    /\ Unwrap(GetNow(proc[p].id)).name = "Default"
    /\ \E path \in LivePaths : fs[path] # NoFile

SaveModelsReturned(p) == proc[p].pc = "done" /\ proc[p].op = "save_models"

\* C39: a save_custom_models that returns success leaves in settings.json a
\* map whose customModels is the list passed and whose other top-level
\* fields are those of the map the file held, each with its value, and none
\* else; over an absent file, or one of no bytes or white space alone, the
\* map holds customModels alone.  When the file holds anything else that
\* does not parse, the call returns the CONFIG_PARSE_ERROR error and every
\* file is as it was.  With no I/O failure the call returns success in the
\* other cases, and a call that returns an error leaves settings.json as it
\* was.
C39_SaveCustomModelsFrame ==
  \A p \in Procs :
    SaveModelsReturned(p)
      => LET b == proc[p].pre[FactorySettingsPath]
             blank == b = NoFile \/ (b[1] = "txt" /\ \A i \in 1..Len(b[2]) : IsWhitespace(b[2][i]))
             before == FromStr(b)
             after == FromStr(fs[FactorySettingsPath])
             models == CustomModelsValue(Unwrap(proc[p].arg))
         IN /\ proc[p].result = "ok"
                 => /\ after[1] /\ IsObj(after[2])
                    /\ "customModels" \in Keys(after[2])
                    /\ after[2][2]["customModels"] = models
                    /\ (before[1] /\ IsObj(before[2]))
                         => /\ Keys(after[2]) = Keys(before[2]) \cup {"customModels"}
                            /\ \A k \in Keys(before[2]) \ {"customModels"} :
                                 after[2][2][k] = before[2][2][k]
                    /\ blank => Keys(after[2]) = {"customModels"}
            /\ (~blank /\ ~before[1])
                 => /\ proc[p].result = "err"
                    /\ proc[p].err = "parse"
            /\ proc[p].err = "parse" => (fs = proc[p].pre /\ proc[p].renamed = {})
            /\ (faults = MaxFaults /\ (blank \/ before[1])) => proc[p].result = "ok"
            /\ proc[p].result = "err" => fs[FactorySettingsPath] = b

\* customModels replaced in a file that held other fields and a list
C39_Witness ==
  \E p \in Procs :
    /\ SaveModelsReturned(p)
    /\ proc[p].result = "ok"
    /\ proc[p].arg = Some(<<Gpt>>)
    /\ proc[p].pre[FactorySettingsPath]
         = JsonText("pretty", JObj(Theme @@ "customModels" :> CustomModelsValue(<<Sonnet>>)))
    /\ fs[FactorySettingsPath]
         = JsonText("pretty", JObj(Theme @@ "customModels" :> CustomModelsValue(<<Gpt>>)))

====
